---- MODULE Spec2Model ----
(***************************************************************************)
(* Model of the memory-qdrant-nebula plugin core:                          *)
(*   - inferImplicitRelations                  (entity-extractor.ts)       *)
(*   - HybridSearch.search, mergeResults,                                  *)
(*     enrichWithEntities                      (hybrid-search.ts)          *)
(*   - ensureMorphInit and the lookups         (morph.ts)                  *)
(*   - shouldCapture, detectCategory,                                      *)
(*     calculateImportance                     (triggers.ts)               *)
(*   - extractEntities, extractRelations       (entity-extractor.ts)       *)
(*   - memory_store, memory_forget, agent_end  (index.ts)                  *)
(*   - QdrantMemoryClient                      (qdrant-client.ts)          *)
(*   - NebulaMemoryClient                      (nebula-client.ts)          *)
(* Each component has its own specification; the variables of the other    *)
(* components stay at their idle values.                                   *)
(*                                                                         *)
(* Strings whose characters the code inspects are sequences of one-letter  *)
(* strings.  Scores are decimal fixed point: vectorScore, graphScore,      *)
(* hybridWeight and importance in tenths; combinedScore and confidence in  *)
(* hundredths.  A text the trigger patterns are tested on is a sequence    *)
(* of fragments, each a fixed piece of text; Cyrillic letters and words    *)
(* are named in Latin letters ("cyrD", "ru:vazhno").                       *)
(***************************************************************************)
EXTENDS Integers, Sequences, FiniteSets, TLC

VARIABLES
    \* ---- inferImplicitRelations ----
    entities,           \* argument `entities`
    explicitRelations,  \* argument `explicitRelations`
    implicit,           \* the returned list
    inferPc,            \* "off", "input" before the call, "done" after it
    \* ---- HybridSearch.search ----
    importance,         \* payload.importance of each stored memory
    opts,               \* options after defaults: limit, hybridWeight, includeGraph
    entityNames,        \* argument `entityNames`
    vectorResults,      \* what qdrant.search resolved with
    graphMemoryIds,     \* the Set built from findRelatedMemories, in insertion order
    graphOutcome,       \* "none", "skipped", "ok", "threw"
    results,            \* the `results` array after scoring and sorting
    returned,           \* the value search resolved with
    searchPc,           \* "off", "idle", "vector", "graph", "combine", "returned", "failed"
    \* ---- HybridSearch.enrichWithEntities ----
    enrichInput,        \* argument `results`
    lookups,            \* outcome of qdrant.getById for each result processed
    enriched,           \* the `enriched` array
    enrichPc,           \* "off", "loop", "done", "failed"
    \* ---- morph.ts ----
    Az,                 \* "null" or "loaded"
    initialized,        \* module flag `initialized`
    initPromise,        \* "null", "pending", "fulfilled", "rejected"
    initStarted,        \* number of Az.Morph.init invocations
    callState,          \* per caller: promise returned by its ensureMorphInit call
    joined,             \* per caller: when its latest call was made
    callsMade,          \* number of ensureMorphInit calls so far
    lastLookup,         \* the latest morphology lookup: function, input, result
    \* ---- triggers.ts ----
    text,               \* argument `text`, as a sequence of fragments
    lastCall,           \* the latest call: function, further arguments, result
    \* ---- extractEntities, extractRelations ----
    extractInput,       \* what the patterns matched in the text
    extractOutput,      \* the latest call: function and returned list
    \* ---- memory_store, memory_forget, agent_end ----
    pluginCall,         \* the latest handler run: its name and its inputs
    pluginEffects,      \* what that run asked of the vector store and the graph
    \* ---- QdrantMemoryClient ----
    qdrantClient,       \* field `client`: "null" or "set"
    qdrantInitPromise,  \* field `initPromise`: "null", "pending", "fulfilled", "rejected"
    qdrantInitStep,     \* where doInitialize stands
    qdrantOpPc,         \* per caller: where its operation stands
    qdrantIssued,       \* per caller: where doInitialize stood when it last issued
    \* ---- NebulaMemoryClient ----
    nebulaSession,      \* field `session`: "null" or "client"
    nebulaInitPromise,  \* field `initPromise`: "null", "pending", "fulfilled", "rejected"
    nebulaInitStep,     \* where doInitialize stands
    nebulaOpPc,         \* per caller: where its execute stands
    nebulaSent,         \* per caller: the session its latest execute sent on
    nebulaClosing       \* close() is awaiting session.close()

inferVars == <<entities, explicitRelations, implicit, inferPc>>

searchVars == <<importance, opts, entityNames, vectorResults, graphMemoryIds,
                graphOutcome, results, returned, searchPc>>

enrichVars == <<enrichInput, lookups, enriched, enrichPc>>

morphVars == <<Az, initialized, initPromise, initStarted, callState, joined,
               callsMade, lastLookup>>

triggerVars == <<text, lastCall>>

extractVars == <<extractInput, extractOutput>>

pluginVars == <<pluginCall, pluginEffects>>

qdrantVars == <<qdrantClient, qdrantInitPromise, qdrantInitStep, qdrantOpPc,
                qdrantIssued>>

nebulaVars == <<nebulaSession, nebulaInitPromise, nebulaInitStep, nebulaOpPc,
                nebulaSent, nebulaClosing>>

\* the variables of the text and search engine
coreVars == <<inferVars, searchVars, enrichVars, morphVars, triggerVars,
              extractVars>>

vars == <<coreVars, pluginVars, qdrantVars, nebulaVars>>

-----------------------------------------------------------------------------
(* Bounds *)

\* entities and explicit relations handed to one call, taken together
MaxInputs == 3

-----------------------------------------------------------------------------
(* Strings *)

\* String.prototype.toLowerCase on one character
LowerChar(c) ==
    IF c = "A" THEN "a" ELSE IF c = "B" THEN "b"
    ELSE IF c = "T" THEN "t" ELSE IF c = "L" THEN "l"
    ELSE IF c = "cyrD" THEN "cyrd" ELSE c

\* String.prototype.toLowerCase
ToLowerCase(s) == [i \in 1..Len(s) |-> LowerChar(s[i])]

\* Names the inputs are drawn from: two spellings of one name, a second
\* name, and two hyphenated names.
Names ==
    { <<"a">>, <<"A">>, <<"b">>, <<"a", "-", "b">>, <<"b", "-", "b">> }

EntityTypes == {"person", "organization", "location", "concept"}

\* ExtractedEntity, the fields inferImplicitRelations reads
EntityPool == [type : EntityTypes, name : Names]

\* ExtractedRelation
Relation(sType, sName, tType, tName, rType, props, conf) ==
    [sourceType |-> sType, sourceName |-> sName,
     targetType |-> tType, targetName |-> tName,
     relationType |-> rType, properties |-> props, confidence |-> conf]

\* Explicit relations as extractRelations emits them (the works_at literal);
\* inferImplicitRelations reads only their two names.
ExplicitPool ==
    { Relation("person", s, "organization", t, "works_at", {}, 80) :
        s \in Names, t \in Names }

\* All sequences over S of length at most n
SeqsUpTo(S, n) == UNION { [1..k -> S] : k \in 0..n }

-----------------------------------------------------------------------------
(* inferImplicitRelations *)

\* `${x.toLowerCase()}-${y.toLowerCase()}`
PairKey(x, y) == ToLowerCase(x) \o <<"-">> \o ToLowerCase(y)

\* explicitPairs: both orderings of every explicit relation's names
ExplicitPairsForwardOnly(R) ==
    { PairKey(R[i].sourceName, R[i].targetName) : i \in 1..Len(R) }

ExplicitPairs(R) ==
    { PairKey(R[i].sourceName, R[i].targetName) : i \in 1..Len(R) }
    \cup
    { PairKey(R[i].targetName, R[i].sourceName) : i \in 1..Len(R) }

\* entities.filter((e) => e.type === t)
OfType(E, t) == SelectSeq(E, LAMBDA e : e.type = t)

InferredConfidence == 40

\* the relation literal pushed by each of the three loops
InferredRelationAsKnows(person, target, tType) ==
    Relation("person", person.name, tType, target.name,
             "knows", {<<"inferred", TRUE>>}, InferredConfidence)

InferredRelation(person, target, tType) ==
    Relation("person", person.name, tType, target.name,
             "related_to", {<<"inferred", TRUE>>}, InferredConfidence)

\* one inner loop: for (const x of targets) if (!explicitPairs.has(pairKey)) push
RECURSIVE CoOccurrence(_, _, _, _)
CoOccurrence(person, targets, tType, pairs) ==
    IF targets = <<>> THEN <<>>
    ELSE LET x == Head(targets)
             rest == CoOccurrence(person, Tail(targets), tType, pairs)
         IN  IF PairKey(person.name, x.name) \notin pairs
             THEN <<InferredRelation(person, x, tType)>> \o rest
             ELSE rest

\* the outer loop over persons
RECURSIVE PersonLoopOrganizationsTwice(_, _, _)
PersonLoopOrganizationsTwice(persons, E, pairs) ==
    IF persons = <<>> THEN <<>>
    ELSE LET p == Head(persons)
         IN  CoOccurrence(p, OfType(E, "organization"), "organization", pairs)
             \o CoOccurrence(p, OfType(E, "organization"), "organization", pairs)
             \o CoOccurrence(p, OfType(E, "location"), "location", pairs)
             \o CoOccurrence(p, OfType(E, "concept"), "concept", pairs)
             \o PersonLoopOrganizationsTwice(Tail(persons), E, pairs)

RECURSIVE PersonLoop(_, _, _)
PersonLoop(persons, E, pairs) ==
    IF persons = <<>> THEN <<>>
    ELSE LET p == Head(persons)
         IN  CoOccurrence(p, OfType(E, "organization"), "organization", pairs)
             \o CoOccurrence(p, OfType(E, "location"), "location", pairs)
             \o CoOccurrence(p, OfType(E, "concept"), "concept", pairs)
             \o PersonLoop(Tail(persons), E, pairs)

inferImplicitRelations(E, R) ==
    PersonLoop(OfType(E, "person"), E, ExplicitPairs(R))

InferOff ==
    /\ entities = <<>>
    /\ explicitRelations = <<>>
    /\ implicit = <<>>
    /\ inferPc = "off"

InferInit ==
    /\ entities \in SeqsUpTo(EntityPool, MaxInputs)
    /\ explicitRelations \in SeqsUpTo(ExplicitPool, MaxInputs - Len(entities))
    /\ implicit = <<>>
    /\ inferPc = "input"

InferCall ==
    /\ inferPc = "input"
    /\ implicit' = inferImplicitRelations(entities, explicitRelations)
    /\ inferPc' = "done"
    /\ UNCHANGED <<entities, explicitRelations>>
    /\ UNCHANGED <<searchVars, enrichVars, morphVars, triggerVars, extractVars,
                 pluginVars, qdrantVars, nebulaVars>>

-----------------------------------------------------------------------------
(* HybridSearch.search and HybridSearch.mergeResults *)

MaxVector == 3
MaxGraph == 2
MaxLimit == 2

\* memory identifiers
Ids == {"a", "b", "c"}

\* similarity scores the vector collaborator reports, in tenths
Scores == {3, 9}

\* stored importances, in tenths
Importances == {2, 5}

\* hybridWeight values, in tenths
HybridWeights == {0, 7, 10}

\* 1.0 in tenths
One == 10

BothBoost == 5
GraphOnlyScore == 7

Min(x, y) == IF x <= y THEN x ELSE y

\* what qdrant.search may resolve with for a request of at most n points:
\* distinct points, ranked by descending similarity
VectorLists(n) ==
    { s \in SeqsUpTo([id : Ids, score : Scores], Min(n, MaxVector)) :
        /\ \A i, j \in 1..Len(s) : i # j => s[i].id # s[j].id
        /\ \A i \in 1..(Len(s) - 1) : s[i].score >= s[i + 1].score }

\* what findRelatedMemories may resolve with
GraphLists == SeqsUpTo(Ids, MaxGraph)

\* new Set(graphIds): first occurrences, in order
RECURSIVE NewSet(_)
NewSet(s) ==
    IF s = <<>> THEN <<>>
    ELSE LET init == NewSet(SubSeq(s, 1, Len(s) - 1))
             last == s[Len(s)]
         IN  IF \E i \in 1..Len(init) : init[i] = last
             THEN init
             ELSE Append(init, last)

\* Set.prototype.has / the elements of a sequence
Elems(s) == { s[i] : i \in 1..Len(s) }

\* the HybridSearchResult literal of the vector loop
VectorEntryIgnoringGraph(vr, G) ==
    [id |-> vr.id, importance |-> vr.importance,
     vectorScore |-> vr.score, graphScore |-> 0,
     combinedScore |-> 0, source |-> "vector", entities |-> {}]

VectorEntry(vr, G) ==
    [id |-> vr.id, importance |-> vr.importance,
     vectorScore |-> vr.score,
     graphScore |-> IF vr.id \in G THEN BothBoost ELSE 0,
     combinedScore |-> 0,
     source |-> IF vr.id \in G THEN "both" ELSE "vector",
     entities |-> {}]

\* the HybridSearchResult literal of the graph-only loop
GraphEntry(id, imp) ==
    [id |-> id, importance |-> imp,
     vectorScore |-> 0, graphScore |-> GraphOnlyScore,
     combinedScore |-> 0, source |-> "graph", entities |-> {}]

\* Map.prototype.set on a map kept as its entries in insertion order
MapSet(m, entry) ==
    IF \E i \in 1..Len(m) : m[i].id = entry.id
    THEN [i \in 1..Len(m) |-> IF m[i].id = entry.id THEN entry ELSE m[i]]
    ELSE Append(m, entry)

MapHas(m, id) == \E i \in 1..Len(m) : m[i].id = id

\* for (const vr of vectorResults) resultsMap.set(...)
RECURSIVE ProcessVector(_, _, _)
ProcessVector(m, vrs, G) ==
    IF vrs = <<>> THEN m
    ELSE ProcessVector(MapSet(m, VectorEntry(Head(vrs), G)), Tail(vrs), G)

\* for (const graphId of graphMemoryIds): fetch[id] is what getById did
RECURSIVE AddGraphOnly(_, _, _, _)
AddGraphOnly(m, gids, fetch, imp) ==
    IF gids = <<>> THEN m
    ELSE LET id == Head(gids)
             m2 == IF ~MapHas(m, id) /\ fetch[id] = "found"
                   THEN MapSet(m, GraphEntry(id, imp[id]))
                   ELSE m
         IN  AddGraphOnly(m2, Tail(gids), fetch, imp)

\* r.combinedScore = vectorComponent + graphComponent + importanceBoost
CombinedScoreGraphInverted(r, hw) ==
    r.vectorScore * hw + r.graphScore * (hw - One) + r.importance

CombinedScoreNoImportance(r, hw) ==
    r.vectorScore * hw + r.graphScore * (One - hw)

CombinedScore(r, hw) ==
    r.vectorScore * hw + r.graphScore * (One - hw) + r.importance

ScoreAll(rs, hw) ==
    [i \in 1..Len(rs) |-> [rs[i] EXCEPT !.combinedScore = CombinedScore(rs[i], hw)]]

\* results.sort((a, b) => b.combinedScore - a.combinedScore): stable
InsertDesc(sorted, r) ==
    LET k == Cardinality({ i \in 1..Len(sorted) :
                             sorted[i].combinedScore >= r.combinedScore })
    IN  SubSeq(sorted, 1, k) \o <<r>> \o SubSeq(sorted, k + 1, Len(sorted))

RECURSIVE SortFrom(_, _)
SortFrom(sorted, rest) ==
    IF rest = <<>> THEN sorted
    ELSE SortFrom(InsertDesc(sorted, Head(rest)), Tail(rest))

SortByCombinedUnsorted(rs) == rs

SortByCombined(rs) == SortFrom(<<>>, rs)

\* results.slice(0, limit)
Slice(rs, limit) == SubSeq(rs, 1, Min(limit, Len(rs)))

\* HybridSearch.mergeResults: id -> {vectorScore, graphScore}
RECURSIVE MergeVector(_, _)
MergeVector(m, vrs) ==
    IF vrs = <<>> THEN m
    ELSE LET vr == Head(vrs)
             e == [vectorScore |-> vr.score, graphScore |-> 0]
         IN  MergeVector([i \in DOMAIN m \cup {vr.id} |->
                              IF i = vr.id THEN e ELSE m[i]], Tail(vrs))

RECURSIVE MergeGraph(_, _)
MergeGraph(m, gids) ==
    IF gids = <<>> THEN m
    ELSE LET id == Head(gids)
             m2 == IF id \in DOMAIN m
                   THEN [m EXCEPT ![id].graphScore = BothBoost]
                   ELSE [i \in DOMAIN m \cup {id} |->
                            IF i = id
                            THEN [vectorScore |-> 0, graphScore |-> GraphOnlyScore]
                            ELSE m[i]]
         IN  MergeGraph(m2, Tail(gids))

mergeResults(vrs, gids, hw) == MergeGraph(MergeVector(<<>>, vrs), gids)

SearchOff ==
    /\ importance = [i \in Ids |-> 5]
    /\ opts = [limit |-> 1, hybridWeight |-> 7, includeGraph |-> TRUE]
    /\ entityNames = <<>>
    /\ vectorResults = <<>>
    /\ graphMemoryIds = <<>>
    /\ graphOutcome = "none"
    /\ results = <<>>
    /\ returned = <<>>
    /\ searchPc = "off"

SearchInit ==
    /\ importance \in [Ids -> Importances]
    /\ opts = [limit |-> 1, hybridWeight |-> 7, includeGraph |-> TRUE]
    /\ entityNames = <<>>
    /\ vectorResults = <<>>
    /\ graphMemoryIds = <<>>
    /\ graphOutcome = "none"
    /\ results = <<>>
    /\ returned = <<>>
    /\ searchPc = "idle"

\* search(vector, query, entityNames, options): destructuring of the options
SearchCall ==
    /\ searchPc = "idle"
    /\ \E l \in 1..MaxLimit, hw \in HybridWeights, ig \in BOOLEAN :
         opts' = [limit |-> l, hybridWeight |-> hw, includeGraph |-> ig]
    /\ entityNames' \in {<<>>, <<"n">>}
    /\ searchPc' = "vector"
    /\ UNCHANGED <<importance, vectorResults, graphMemoryIds, graphOutcome,
                   results, returned>>
    /\ UNCHANGED <<inferVars, enrichVars, morphVars, triggerVars, extractVars,
                 pluginVars, qdrantVars, nebulaVars>>

\* 1. await this.qdrant.search(vector, limit * 2, minScore, filter)
QdrantSearch ==
    /\ searchPc = "vector"
    /\ \E vl \in VectorLists(opts.limit * 2) :
         vectorResults' =
             [i \in 1..Len(vl) |->
                 [id |-> vl[i].id, score |-> vl[i].score,
                  importance |-> importance[vl[i].id]]]
    /\ searchPc' = "graph"
    /\ UNCHANGED <<importance, opts, entityNames, graphMemoryIds, graphOutcome,
                   results, returned>>
    /\ UNCHANGED <<inferVars, enrichVars, morphVars, triggerVars, extractVars,
                 pluginVars, qdrantVars, nebulaVars>>

QdrantSearchThrows ==
    /\ searchPc = "vector"
    /\ searchPc' = "failed"
    /\ UNCHANGED <<importance, opts, entityNames, vectorResults, graphMemoryIds,
                   graphOutcome, results, returned>>
    /\ UNCHANGED <<inferVars, enrichVars, morphVars, triggerVars, extractVars,
                 pluginVars, qdrantVars, nebulaVars>>

GraphEnabled == opts.includeGraph /\ Len(entityNames) > 0

\* 2. graph search not requested: graphMemoryIds stays the empty Set
SkipGraph ==
    /\ searchPc = "graph"
    /\ ~GraphEnabled
    /\ graphOutcome' = "skipped"
    /\ searchPc' = "combine"
    /\ UNCHANGED <<importance, opts, entityNames, vectorResults, graphMemoryIds,
                   results, returned>>
    /\ UNCHANGED <<inferVars, enrichVars, morphVars, triggerVars, extractVars,
                 pluginVars, qdrantVars, nebulaVars>>

\* 2. await this.nebula.findRelatedMemories(entityNames) resolves
FindRelatedMemories ==
    /\ searchPc = "graph"
    /\ GraphEnabled
    /\ \E gl \in GraphLists : graphMemoryIds' = NewSet(gl)
    /\ graphOutcome' = "ok"
    /\ searchPc' = "combine"
    /\ UNCHANGED <<importance, opts, entityNames, vectorResults, results, returned>>
    /\ UNCHANGED <<inferVars, enrichVars, morphVars, triggerVars, extractVars,
                 pluginVars, qdrantVars, nebulaVars>>

\* 2. await this.nebula.findRelatedMemories(entityNames) rejects: the await
\* is outside any try block, so search rejects
FindRelatedMemoriesThrows ==
    /\ searchPc = "graph"
    /\ GraphEnabled
    /\ graphOutcome' = "threw"
    /\ searchPc' = "failed"
    /\ UNCHANGED <<importance, opts, entityNames, vectorResults, graphMemoryIds,
                   results, returned>>
    /\ UNCHANGED <<inferVars, enrichVars, morphVars, triggerVars, extractVars,
                 pluginVars, qdrantVars, nebulaVars>>

\* the identifiers the graph-only loop fetches with getById
GraphOnlyIds ==
    Elems(graphMemoryIds) \ { vectorResults[i].id : i \in 1..Len(vectorResults) }

\* 3. and 4.: build the map, score, sort, slice; fetch[id] is what
\* this.qdrant.getById(id) did
Combine ==
    /\ searchPc = "combine"
    /\ \E fetch \in [GraphOnlyIds -> {"found", "absent", "throws"}] :
         LET G == Elems(graphMemoryIds)
             m == AddGraphOnly(ProcessVector(<<>>, vectorResults, G),
                               graphMemoryIds, fetch, importance)
             sorted == SortByCombined(ScoreAll(m, opts.hybridWeight))
         IN  /\ results' = sorted
             /\ returned' = Slice(sorted, opts.limit)
    /\ searchPc' = "returned"
    /\ UNCHANGED <<importance, opts, entityNames, vectorResults, graphMemoryIds,
                   graphOutcome>>
    /\ UNCHANGED <<inferVars, enrichVars, morphVars, triggerVars, extractVars,
                 pluginVars, qdrantVars, nebulaVars>>

SearchNext ==
    \/ SearchCall
    \/ QdrantSearch
    \/ QdrantSearchThrows
    \/ SkipGraph
    \/ FindRelatedMemories
    \/ FindRelatedMemoriesThrows
    \/ Combine

-----------------------------------------------------------------------------
(* HybridSearch.enrichWithEntities *)

MaxResults == 2

\* search results handed to enrichWithEntities
ResultPool ==
    { [id |-> "a", importance |-> 5, vectorScore |-> 9, graphScore |-> 0,
       combinedScore |-> 68, source |-> "vector", entities |-> {}],
      [id |-> "b", importance |-> 2, vectorScore |-> 0, graphScore |-> GraphOnlyScore,
       combinedScore |-> 23, source |-> "graph", entities |-> {}],
      [id |-> "c", importance |-> 5, vectorScore |-> 3, graphScore |-> BothBoost,
       combinedScore |-> 41, source |-> "both", entities |-> {}] }

\* entity identifiers found in payload.entityIds: "p_j_s" and "x"
EntityIdPool == { <<"p", "_", "j", "_", "s">>, <<"x">> }

\* payload.entityIds: {} when the field is undefined, else {list}
EntityIdLists ==
    { {} } \cup { {l} : l \in SeqsUpTo(EntityIdPool, 2) }

\* what qdrant.getById does for one result
LookupOutcomes ==
    { [kind |-> "throws", entityIds |-> {}],
      [kind |-> "absent", entityIds |-> {}] }
    \cup { [kind |-> "point", entityIds |-> e] : e \in EntityIdLists }

\* entityId.split("_")
RECURSIVE Split(_, _)
Split(s, sep) ==
    IF \A i \in 1..Len(s) : s[i] # sep THEN <<s>>
    ELSE LET k == CHOOSE i \in 1..Len(s) :
                      s[i] = sep /\ \A j \in 1..(i - 1) : s[j] # sep
         IN  <<SubSeq(s, 1, k - 1)>> \o Split(SubSeq(s, k + 1, Len(s)), sep)

\* parts.join(" ")
RECURSIVE Join(_, _)
Join(parts, sep) ==
    IF parts = <<>> THEN <<>>
    ELSE IF Len(parts) = 1 THEN parts[1]
    ELSE parts[1] \o <<sep>> \o Join(Tail(parts), sep)

\* .replace(/_/g, " ")
ReplaceUnderscores(s) == [i \in 1..Len(s) |-> IF s[i] = "_" THEN " " ELSE s[i]]

\* \w
IsWordChar(c) == c \in {"p", "j", "s", "x", "P", "J", "S", "X", "_"}

\* c.toUpperCase()
UpperChar(c) ==
    IF c = "p" THEN "P" ELSE IF c = "j" THEN "J"
    ELSE IF c = "s" THEN "S" ELSE IF c = "x" THEN "X"
    ELSE IF c = "a" THEN "A" ELSE IF c = "cyrd" THEN "cyrD" ELSE c

\* .replace(/\b\w/g, (c) => c.toUpperCase())
CapitalizeWords(s) ==
    [i \in 1..Len(s) |->
        IF IsWordChar(s[i]) /\ (i = 1 \/ ~IsWordChar(s[i - 1]))
        THEN UpperChar(s[i]) ELSE s[i]]

\* the body of the loop over point.payload.entityIds
RECURSIVE ParseEntityIds(_)
ParseEntityIds(ids) ==
    IF ids = <<>> THEN <<>>
    ELSE LET entityId == Head(ids)
             parts == Split(entityId, "_")
             rest == ParseEntityIds(Tail(ids))
         IN  IF Len(parts) >= 2
             THEN << [id |-> entityId,
                      type |-> parts[1],
                      name |-> CapitalizeWords(
                                   ReplaceUnderscores(Join(Tail(parts), " ")))] >>
                  \o rest
             ELSE rest

\* the try block for one result: thrown, or the element pushed
TryEnrich(r, lookup) ==
    IF lookup.kind = "throws" THEN [thrown |-> TRUE, value |-> r]
    ELSE IF /\ lookup.kind = "point"
            /\ lookup.entityIds # {}
            /\ \E l \in lookup.entityIds : Len(l) > 0
    THEN LET l == CHOOSE x \in lookup.entityIds : TRUE
         IN  [thrown |-> FALSE,
              value |-> [r EXCEPT !.entities = {ParseEntityIds(l)}]]
    ELSE [thrown |-> FALSE, value |-> r]

\* try { ... } catch { enriched.push(r) }
EnrichOneNoCatch(r, lookup) == TryEnrich(r, lookup)

EnrichOne(r, lookup) ==
    LET t == TryEnrich(r, lookup)
    IN  IF t.thrown THEN [thrown |-> FALSE, value |-> r] ELSE t

EnrichOff ==
    /\ enrichInput = <<>>
    /\ lookups = <<>>
    /\ enriched = <<>>
    /\ enrichPc = "off"

EnrichInit ==
    /\ enrichInput \in SeqsUpTo(ResultPool, MaxResults)
    /\ lookups = <<>>
    /\ enriched = <<>>
    /\ enrichPc = "loop"

\* one iteration of for (const r of results)
EnrichNext ==
    /\ enrichPc = "loop"
    /\ Len(lookups) < Len(enrichInput)
    /\ \E lookup \in LookupOutcomes :
         LET r == enrichInput[Len(lookups) + 1]
             e == EnrichOne(r, lookup)
         IN  /\ lookups' = Append(lookups, lookup)
             /\ IF e.thrown
                THEN enrichPc' = "failed" /\ enriched' = enriched
                ELSE enrichPc' = "loop" /\ enriched' = Append(enriched, e.value)
    /\ UNCHANGED enrichInput
    /\ UNCHANGED <<inferVars, searchVars, morphVars, triggerVars, extractVars,
                 pluginVars, qdrantVars, nebulaVars>>

\* return enriched
EnrichReturn ==
    /\ enrichPc = "loop"
    /\ Len(lookups) = Len(enrichInput)
    /\ enrichPc' = "done"
    /\ UNCHANGED <<enrichInput, lookups, enriched>>
    /\ UNCHANGED <<inferVars, searchVars, morphVars, triggerVars, extractVars,
                 pluginVars, qdrantVars, nebulaVars>>

EnrichNextStep == EnrichNext \/ EnrichReturn

-----------------------------------------------------------------------------
(* morph.ts: the lookups, and validateAndNormalizePerson of the extractor  *)
(* Cyrillic letters are written as tokens: "cyrD" is an upper-case and     *)
(* "cyrd", "cyrm", "cyra" are lower-case Cyrillic letters.                 *)

\* what normalize() of a parse variant gives when it does not throw
BaseForm == <<"cyrd", "cyrm">>

\* one parse variant: its part of speech, its grammemes, and its normalize():
\* an exception, or a parse whose word is normWord (<<>> is the empty word)
ParseVariant(pos, grams, normThrows, normWord) ==
    [POS |-> pos, grams |-> grams, normThrows |-> normThrows,
     normWord |-> normWord]

\* lists of parse variants, most plausible first: an unknown word, a first
\* name, a verb, a verb that may also be a name, a place whose normal form
\* is empty, an organization whose normalize() throws
ParseLists ==
    { <<>>,
      << ParseVariant("NOUN", {"Name"}, FALSE, BaseForm) >>,
      << ParseVariant("VERB", {}, FALSE, BaseForm) >>,
      << ParseVariant("VERB", {}, FALSE, BaseForm),
         ParseVariant("NOUN", {"Name"}, FALSE, BaseForm) >>,
      << ParseVariant("NOUN", {"Geox"}, FALSE, <<>>) >>,
      << ParseVariant("null", {"Orgn"}, TRUE, <<>>) >> }

\* what a call Az.Morph(word) does: it throws, or returns parse variants
AzOutcomes ==
    { [throws |-> TRUE, parses |-> <<>>] }
    \cup
    { [throws |-> FALSE, parses |-> ps] : ps \in ParseLists }

\* isMorphReady()
isMorphReady == initialized

\* parse(word): if (!Az || !initialized) return []; try Az.Morph(word) catch []
parseWithoutInitializedGuard(dict, word) ==
    IF Az = "null" THEN <<>>
    ELSE IF dict[word].throws THEN <<>>
    ELSE dict[word].parses

parse(dict, word) ==
    IF Az = "null" \/ ~initialized THEN <<>>
    ELSE IF dict[word].throws THEN <<>>
    ELSE dict[word].parses

\* normalize(word)
normalize(dict, word) ==
    LET parses == parse(dict, word)
    IN  IF Len(parses) = 0 THEN word
        ELSE IF parses[1].normThrows THEN word
        ELSE IF parses[1].normWord = <<>> THEN word
        ELSE parses[1].normWord

\* isProperName(word)
isProperName(dict, word) ==
    LET parses == parse(dict, word)
    IN  IF Len(parses) = 0 THEN FALSE
        ELSE \E i \in 1..Len(parses) :
                 parses[i].grams \cap {"Name", "Surn", "Patr"} # {}

\* isGeoName(word)
isGeoName(dict, word) ==
    LET parses == parse(dict, word)
    IN  IF Len(parses) = 0 THEN FALSE
        ELSE \E i \in 1..Len(parses) : "Geox" \in parses[i].grams

\* isOrgName(word)
isOrgName(dict, word) ==
    LET parses == parse(dict, word)
    IN  IF Len(parses) = 0 THEN FALSE
        ELSE \E i \in 1..Len(parses) : "Orgn" \in parses[i].grams

\* getPOS(word)
getPOS(dict, word) ==
    LET parses == parse(dict, word)
    IN  IF Len(parses) = 0 THEN "null" ELSE parses[1].POS

falsePosTags ==
    { "VERB", "INFN", "GRND", "PRTF", "PRTS", "ADJF", "ADJS", "ADVB", "PREP",
      "CONJ", "PRCL", "INTJ", "PRED", "NPRO" }

\* isFalsePositiveName(word)
isFalsePositiveName(dict, word) ==
    LET parses == parse(dict, word)
    IN  IF Len(parses) = 0 THEN FALSE
        ELSE IF parses[1].grams \cap {"Name", "Surn", "Patr", "Geox"} # {}
             THEN FALSE
        ELSE parses[1].POS \in falsePosTags

\* \s
IsSpace(c) == c = " "

RECURSIVE TrimStart(_)
TrimStart(s) ==
    IF s # <<>> /\ IsSpace(Head(s)) THEN TrimStart(Tail(s)) ELSE s

RECURSIVE TrimEnd(_)
TrimEnd(s) ==
    IF s # <<>> /\ IsSpace(s[Len(s)])
    THEN TrimEnd(SubSeq(s, 1, Len(s) - 1)) ELSE s

\* String.prototype.trim
Trim(s) == TrimEnd(TrimStart(s))

\* .split(/\s+/)
RECURSIVE SplitWhitespace(_)
SplitWhitespace(s) ==
    IF \A i \in 1..Len(s) : ~IsSpace(s[i]) THEN <<s>>
    ELSE LET k == CHOOSE i \in 1..Len(s) :
                      IsSpace(s[i]) /\ \A j \in 1..(i - 1) : ~IsSpace(s[j])
         IN  <<SubSeq(s, 1, k - 1)>>
             \o SplitWhitespace(TrimStart(SubSeq(s, k, Len(s))))

\* /^[A-ZА-ЯЁ]/.test(word)
StartsUpperCase(word) == word # <<>> /\ word[1] \in {"A", "B", "T", "cyrD"}

\* /[А-ЯЁа-яё]/.test(word)
HasCyrillic(word) ==
    \E i \in 1..Len(word) : word[i] \in {"cyrD", "cyrd", "cyrm", "cyra"}

\* capitalize(s)
capitalize(s) ==
    IF s = <<>> THEN s ELSE <<UpperChar(s[1])>> \o Tail(s)

\* the entries of the stop list that the alphabet of the model can spell
commonFalsePositives == { <<"t", "h", "e">>, <<"a">>, <<"a", "n">> }

\* validateAndNormalizePerson: the loop over the words; {} is null
RECURSIVE PersonParts(_, _)
PersonParts(dict, words) ==
    IF words = <<>> THEN {<<>>}
    ELSE LET word == Head(words)
         IN  IF ~StartsUpperCase(word) THEN {}
             ELSE IF isMorphReady /\ HasCyrillic(word)
             THEN IF isFalsePositiveName(dict, word) THEN {}
                  ELSE { <<capitalize(normalize(dict, word))>> \o rest :
                           rest \in PersonParts(dict, Tail(words)) }
             ELSE { <<word>> \o rest : rest \in PersonParts(dict, Tail(words)) }

\* validateAndNormalizePerson(name): {} is null, {s} is the string s
validateAndNormalizePerson(dict, name) ==
    LET trimmed == Trim(name)
    IN  IF Len(trimmed) < 2 THEN {}
        ELSE IF ToLowerCase(trimmed) \in commonFalsePositives THEN {}
        ELSE { Join(parts, " ") : parts \in PersonParts(dict, SplitWhitespace(trimmed)) }

\* words the lookups are called with: a Latin word and an inflected
\* Cyrillic word
LookupWords == { <<"A", "l">>, <<"cyrD", "cyrm", "cyra">> }

\* candidate names validateAndNormalizePerson is called with
PersonNames ==
    { <<"A", "l">>,
      <<"a", "l">>,
      <<"T", "h", "e">>,
      <<"A">>,
      <<"cyrD", "cyrm", "cyra">>,
      <<" ", "cyrD", "cyrm", "cyra", " ", " ", "A", "l">>,
      <<"A", "l", " ", "cyrd", "cyrm", "cyra">> }

\* the Cyrillic words of a name: those Az.Morph can be called with
CyrillicWords(name) ==
    LET words == SplitWhitespace(Trim(name))
    IN  { words[i] : i \in { j \in 1..Len(words) : HasCyrillic(words[j]) } }

\* what Az.Morph would do for each word, once the module is loaded
LookupDicts(words) ==
    IF Az = "loaded" THEN [words -> AzOutcomes] ELSE {<<>>}

\* the call sites of ensureMorphInit that run next to the lookups
LookupCallers == {1, 2}

NoLookup ==
    [fn |-> "none", input |-> <<>>, ready |-> FALSE, dict |-> <<>>, out |-> {}]

-----------------------------------------------------------------------------
(* morph.ts: ensureMorphInit *)

MaxCallers == 3
MaxCalls == 4

Callers == 1..MaxCallers

\* if (initPromise) return initPromise
HasInitPromiseNever == FALSE

HasInitPromise == initPromise # "null"

MorphOff ==
    /\ Az = "null"
    /\ initialized = FALSE
    /\ initPromise = "null"
    /\ initStarted = 0
    /\ callState = [c \in Callers |-> "off"]
    /\ joined = [c \in Callers |-> "none"]
    /\ callsMade = 0
    /\ lastLookup = NoLookup

\* module load: let Az = null; let initialized = false; let initPromise = null
MorphInit ==
    /\ Az = "null"
    /\ initialized = FALSE
    /\ initPromise = "null"
    /\ initStarted = 0
    /\ callState = [c \in Callers |-> "idle"]
    /\ joined = [c \in Callers |-> "none"]
    /\ callsMade = 0
    /\ lastLookup = NoLookup

CanCall(c) ==
    /\ callState[c] \in {"idle", "fulfilled", "rejected"}
    /\ callsMade < MaxCalls

\* ensureMorphInit(): if (initialized) return
CallWhenInitialized(c) ==
    /\ CanCall(c)
    /\ initialized
    /\ callState' = [callState EXCEPT ![c] = "fulfilled"]
    /\ joined' = [joined EXCEPT ![c] = "after"]
    /\ callsMade' = callsMade + 1
    /\ UNCHANGED <<Az, initialized, initPromise, initStarted>>
    /\ UNCHANGED lastLookup
    /\ UNCHANGED <<inferVars, searchVars, enrichVars, triggerVars, extractVars,
                 pluginVars, qdrantVars, nebulaVars>>

\* ensureMorphInit(): if (initPromise) return initPromise
CallJoins(c) ==
    /\ CanCall(c)
    /\ ~initialized
    /\ HasInitPromise
    /\ callState' = [callState EXCEPT ![c] = "pending"]
    /\ joined' = [joined EXCEPT ![c] =
                     IF initPromise = "pending" THEN "inflight" ELSE "settled"]
    /\ callsMade' = callsMade + 1
    /\ UNCHANGED <<Az, initialized, initPromise, initStarted>>
    /\ UNCHANGED lastLookup
    /\ UNCHANGED <<inferVars, searchVars, enrichVars, triggerVars, extractVars,
                 pluginVars, qdrantVars, nebulaVars>>

\* ensureMorphInit(): the executor runs, require("az") succeeds and
\* Az.Morph.init(callback) is started
CallStartsInit(c) ==
    /\ CanCall(c)
    /\ ~initialized
    /\ ~HasInitPromise
    /\ Az' = "loaded"
    /\ initStarted' = initStarted + 1
    /\ initPromise' = "pending"
    /\ callState' = [callState EXCEPT ![c] = "pending"]
    /\ joined' = [joined EXCEPT ![c] = "created"]
    /\ callsMade' = callsMade + 1
    /\ UNCHANGED initialized
    /\ UNCHANGED lastLookup
    /\ UNCHANGED <<inferVars, searchVars, enrichVars, triggerVars, extractVars,
                 pluginVars, qdrantVars, nebulaVars>>

\* ensureMorphInit(): the executor runs and require("az") throws
CallRequireFails(c) ==
    /\ CanCall(c)
    /\ ~initialized
    /\ ~HasInitPromise
    /\ initPromise' = "rejected"
    /\ callState' = [callState EXCEPT ![c] = "pending"]
    /\ joined' = [joined EXCEPT ![c] = "created"]
    /\ callsMade' = callsMade + 1
    /\ UNCHANGED <<Az, initialized, initStarted>>
    /\ UNCHANGED lastLookup
    /\ UNCHANGED <<inferVars, searchVars, enrichVars, triggerVars, extractVars,
                 pluginVars, qdrantVars, nebulaVars>>

\* the Az.Morph.init callback without an error: initialized = true; resolve()
InitCallbackOk ==
    /\ initPromise = "pending"
    /\ initialized' = TRUE
    /\ initPromise' = "fulfilled"
    /\ UNCHANGED <<Az, initStarted, callState, joined, callsMade>>
    /\ UNCHANGED lastLookup
    /\ UNCHANGED <<inferVars, searchVars, enrichVars, triggerVars, extractVars,
                 pluginVars, qdrantVars, nebulaVars>>

\* the Az.Morph.init callback with an error: reject(...)
InitCallbackErrMarksReady ==
    /\ initPromise = "pending"
    /\ initialized' = TRUE
    /\ initPromise' = "rejected"
    /\ UNCHANGED <<Az, initStarted, callState, joined, callsMade>>
    /\ UNCHANGED lastLookup
    /\ UNCHANGED <<inferVars, searchVars, enrichVars, triggerVars, extractVars,
                 pluginVars, qdrantVars, nebulaVars>>

InitCallbackErr ==
    /\ initPromise = "pending"
    /\ initPromise' = "rejected"
    /\ UNCHANGED <<Az, initialized, initStarted, callState, joined, callsMade>>
    /\ UNCHANGED lastLookup
    /\ UNCHANGED <<inferVars, searchVars, enrichVars, triggerVars, extractVars,
                 pluginVars, qdrantVars, nebulaVars>>

\* the promise an async call returned follows the settled initPromise
Settle(c) ==
    /\ callState[c] = "pending"
    /\ initPromise \in {"fulfilled", "rejected"}
    /\ callState' = [callState EXCEPT ![c] = initPromise]
    /\ UNCHANGED <<Az, initialized, initPromise, initStarted, joined, callsMade>>
    /\ UNCHANGED lastLookup
    /\ UNCHANGED <<inferVars, searchVars, enrichVars, triggerVars, extractVars,
                 pluginVars, qdrantVars, nebulaVars>>

\* a lastLookup leaves the module state alone; the model keeps what it returned
LookupReturns(fn, input, dict, out) ==
    /\ lastLookup' = [fn |-> fn, input |-> input, ready |-> isMorphReady,
                  dict |-> dict, out |-> out]
    /\ UNCHANGED <<Az, initialized, initPromise, initStarted, callState,
                   joined, callsMade>>
    /\ UNCHANGED <<inferVars, searchVars, enrichVars, triggerVars, extractVars,
                 pluginVars, qdrantVars, nebulaVars>>

CallNormalize ==
    \E w \in LookupWords : \E dict \in LookupDicts({w}) :
        LookupReturns("normalize", w, dict, normalize(dict, w))

CallIsProperName ==
    \E w \in LookupWords : \E dict \in LookupDicts({w}) :
        LookupReturns("isProperName", w, dict, isProperName(dict, w))

CallIsGeoName ==
    \E w \in LookupWords : \E dict \in LookupDicts({w}) :
        LookupReturns("isGeoName", w, dict, isGeoName(dict, w))

CallIsOrgName ==
    \E w \in LookupWords : \E dict \in LookupDicts({w}) :
        LookupReturns("isOrgName", w, dict, isOrgName(dict, w))

CallGetPOS ==
    \E w \in LookupWords : \E dict \in LookupDicts({w}) :
        LookupReturns("getPOS", w, dict, getPOS(dict, w))

CallIsFalsePositiveName ==
    \E w \in LookupWords : \E dict \in LookupDicts({w}) :
        LookupReturns("isFalsePositiveName", w, dict, isFalsePositiveName(dict, w))

\* extractPersons and extractRelations validating one candidate name
CallValidatePerson ==
    \E name \in PersonNames : \E dict \in LookupDicts(CyrillicWords(name)) :
        LookupReturns("validateAndNormalizePerson", name, dict,
                      validateAndNormalizePerson(dict, name))

MorphNext ==
    \/ \E c \in Callers : CallWhenInitialized(c)
    \/ \E c \in Callers : CallJoins(c)
    \/ \E c \in Callers : CallStartsInit(c)
    \/ \E c \in Callers : CallRequireFails(c)
    \/ InitCallbackOk
    \/ InitCallbackErr
    \/ \E c \in Callers : Settle(c)

\* ensureMorphInit calls interleaved with lookups
LookupNext ==
    \/ \E c \in LookupCallers : CallWhenInitialized(c)
    \/ \E c \in LookupCallers : CallJoins(c)
    \/ \E c \in LookupCallers : CallStartsInit(c)
    \/ \E c \in LookupCallers : CallRequireFails(c)
    \/ InitCallbackOk
    \/ InitCallbackErr
    \/ \E c \in LookupCallers : Settle(c)
    \/ CallNormalize
    \/ CallIsProperName
    \/ CallIsGeoName
    \/ CallIsOrgName
    \/ CallGetPOS
    \/ CallIsFalsePositiveName
    \/ CallValidatePerson

-----------------------------------------------------------------------------
(* triggers.ts: shouldCapture, detectCategory, calculateImportance          *)
(* A text is a sequence of fragments.  No fragment completes, together     *)
(* with a neighbour, a substring the code searches for, so a substring     *)
(* test is a test for the fragment that holds it.                          *)

\* fragments of one text
MaxFragments == 3

\* largest entityCount passed to calculateImportance
MaxEntityCount == 4

\* a fragment's length in UTF-16 code units and the classes of its first and
\* last character: "word" is [A-Za-z0-9_], "cyr" a Cyrillic letter, "space"
\* is \s.  "ru:" fragments stand for the Cyrillic words of the patterns,
\* "long" for 1991 word characters and a space, "nl-" for a line feed and a
\* hyphen, "emoji2" for two emoji, "codeline" for
\* "export const f = function () => {", "email" for "a@b.co".
FragmentOf(f) ==
    CASE f \in {"Remember", "remember"} -> [len |-> 8, first |-> "word", last |-> "word"]
      [] f \in {"Prefer", "prefer"}     -> [len |-> 6, first |-> "word", last |-> "word"]
      [] f = "decided"                  -> [len |-> 7, first |-> "word", last |-> "word"]
      [] f = "important"                -> [len |-> 9, first |-> "word", last |-> "word"]
      [] f = "is"                       -> [len |-> 2, first |-> "word", last |-> "word"]
      [] f = "phone"                    -> [len |-> 5, first |-> "word", last |-> "word"]
      [] f = "my name"                  -> [len |-> 7, first |-> "word", last |-> "word"]
      [] f = "email"                    -> [len |-> 6, first |-> "word", last |-> "word"]
      [] f = "cs:pamatuj"               -> [len |-> 7, first |-> "word", last |-> "word"]
      [] f = "ru:zapomni"               -> [len |-> 7, first |-> "cyr", last |-> "cyr"]
      [] f = "ru:vazhno"                -> [len |-> 5, first |-> "cyr", last |-> "cyr"]
      [] f = "ru:moi drug"              -> [len |-> 8, first |-> "cyr", last |-> "cyr"]
      [] f = " "                        -> [len |-> 1, first |-> "space", last |-> "space"]
      [] f = "long"                     -> [len |-> 1992, first |-> "word", last |-> "space"]
      [] f = "<relevant-memories>"      -> [len |-> 19, first |-> "other", last |-> "other"]
      [] f = "</b>"                     -> [len |-> 4, first |-> "other", last |-> "other"]
      [] f = "**"                       -> [len |-> 2, first |-> "other", last |-> "other"]
      [] f = "nl-"                      -> [len |-> 2, first |-> "space", last |-> "other"]
      [] f = "emoji2"                   -> [len |-> 4, first |-> "other", last |-> "other"]
      [] f = "fence"                    -> [len |-> 3, first |-> "other", last |-> "other"]
      [] f = "codeline"                 -> [len |-> 33, first |-> "word", last |-> "other"]
      [] f = "let "                     -> [len |-> 4, first |-> "word", last |-> "space"]

\* texts handed to shouldCapture, to detectCategory and to calculateImportance
Texts ==
    SeqsUpTo({ "Remember", "ru:zapomni", "cs:pamatuj", " ", "long",
               "<relevant-memories>", "</b>", "**", "nl-", "emoji2", "fence",
               "codeline", "let " }, MaxFragments)
    \cup
    SeqsUpTo({ "Prefer", "decided", "phone", "is", " " }, MaxFragments)
    \cup
    SeqsUpTo({ "important", "ru:vazhno", "Remember", "ru:zapomni", "email",
               "my name", "decided", "ru:moi drug", " " }, MaxFragments)

\* cfg.languages
LanguageLists ==
    { <<>>, <<"en">>, <<"ru">>, <<"cs">>, <<"en", "ru">>, <<"cs", "en">> }

\* entityCount: {} is undefined
EntityCounts == { {} } \cup { {n} : n \in 0..MaxEntityCount }

\* text.length
RECURSIVE Length(_)
Length(t) == IF t = <<>> THEN 0 ELSE FragmentOf(Head(t)).len + Length(Tail(t))

\* text.includes(f)
Includes(t, f) == \E i \in 1..Len(t) : t[i] = f

\* text.toLowerCase()
LowerText(t) ==
    [i \in 1..Len(t) |->
        IF t[i] = "Remember" THEN "remember"
        ELSE IF t[i] = "Prefer" THEN "prefer" ELSE t[i]]

\* a regular expression: its alternatives, how they are anchored ("b" is
\* \b(...)\b, "ws" is (^|\s)(...)(\s|$|[,.]), "none" is unanchored) and its
\* i flag
Pattern(words, anchor, ignoreCase) ==
    [words |-> words, anchor |-> anchor, ignoreCase |-> ignoreCase]

\* \b between the character before and the first character of fragment i,
\* and between its last character and the character after: exactly one of
\* the two is a word character
WordBoundaries(t, i) ==
    /\ (i > 1 /\ FragmentOf(t[i - 1]).last = "word")
           # (FragmentOf(t[i]).first = "word")
    /\ (i < Len(t) /\ FragmentOf(t[i + 1]).first = "word")
           # (FragmentOf(t[i]).last = "word")

\* r.test(text)
Test(r, t) ==
    \E i \in 1..Len(t) :
        /\ IF r.ignoreCase THEN LowerText(t)[i] \in r.words ELSE t[i] \in r.words
        /\ CASE r.anchor = "b" -> WordBoundaries(t, i)
             [] r.anchor = "ws" ->
                    /\ i = 1 \/ FragmentOf(t[i - 1]).last = "space"
                    /\ i = Len(t) \/ FragmentOf(t[i + 1]).first = "space"
             [] OTHER -> TRUE

\* patterns.some((r) => r.test(text))
Some(patterns, t) == \E k \in 1..Len(patterns) : Test(patterns[k], t)

\* the patterns of each list whose alternatives the fragments can spell
MEMORY_TRIGGERS_EN ==
    << Pattern({"remember"}, "b", TRUE),
       Pattern({"prefer"}, "b", TRUE),
       Pattern({"decided"}, "b", TRUE),
       Pattern({"email"}, "none", FALSE),
       Pattern({"important"}, "b", TRUE) >>

MEMORY_TRIGGERS_RU ==
    << Pattern({"ru:zapomni"}, "ws", TRUE),
       Pattern({"ru:vazhno"}, "ws", TRUE),
       Pattern({"ru:moi drug"}, "none", TRUE) >>

MEMORY_TRIGGERS_CS == << Pattern({"cs:pamatuj"}, "b", TRUE) >>

TRIGGERS_BY_LANGUAGE(lang) ==
    CASE lang = "en" -> MEMORY_TRIGGERS_EN
      [] lang = "ru" -> MEMORY_TRIGGERS_RU
      [] lang = "cs" -> MEMORY_TRIGGERS_CS

\* text.length < 10 || text.length > 2000
OutsideLengthBandNoUpperBound(t) == Length(t) < 10

OutsideLengthBand(t) == Length(t) < 10 \/ Length(t) > 2000

\* text.includes("<relevant-memories>")
HasRecallDelimiterNever(t) == FALSE

HasRecallDelimiter(t) == Includes(t, "<relevant-memories>")

\* the four filters after the recall delimiter: system-generated content,
\* agent summaries, emoji, code
OtherRejectFilters(t) ==
    LET emojiCount == 2 * Cardinality({ i \in 1..Len(t) : t[i] = "emoji2" })
        codeTokenCount ==
            (IF Includes(t, "fence") THEN 1 ELSE 0)
            + (IF Includes(t, "codeline") THEN 4 ELSE 0)
            + (IF Includes(t, "let ") THEN 1 ELSE 0)
    IN  \/ t # <<>> /\ t[1] \in {"<relevant-memories>", "</b>"} /\ Includes(t, "</b>")
        \/ Includes(t, "**") /\ Includes(t, "nl-")
        \/ emojiCount > 3
        \/ 2 * codeTokenCount > 9 \/ Includes(t, "fence")

\* for (const lang of languages) if (triggers.some(...)) return true
TriggerMatchesAnyLanguage(t, languages) ==
    \E lang \in {"en", "ru", "cs"} : Some(TRIGGERS_BY_LANGUAGE(lang), t)

TriggerMatches(t, languages) ==
    \E k \in 1..Len(languages) : Some(TRIGGERS_BY_LANGUAGE(languages[k]), t)

shouldCapture(t, languages) ==
    IF OutsideLengthBand(t) THEN FALSE
    ELSE IF HasRecallDelimiter(t) THEN FALSE
    ELSE IF OtherRejectFilters(t) THEN FALSE
    ELSE TriggerMatches(t, languages)

\* PREFERENCE_PATTERNS, DECISION_PATTERNS, ENTITY_PATTERNS, FACT_PATTERNS, in
\* the order detectCategory tests them
CategoryPatternsFactFirst ==
    << [category |-> "fact", patterns |-> << Pattern({"is"}, "b", TRUE) >>],
       [category |-> "preference", patterns |-> << Pattern({"prefer"}, "b", TRUE) >>],
       [category |-> "decision", patterns |-> << Pattern({"decided"}, "b", TRUE) >>],
       [category |-> "entity",
        patterns |-> << Pattern({"email"}, "none", FALSE),
                        Pattern({"phone"}, "b", TRUE) >>] >>

CategoryPatterns ==
    << [category |-> "preference", patterns |-> << Pattern({"prefer"}, "b", TRUE) >>],
       [category |-> "decision", patterns |-> << Pattern({"decided"}, "b", TRUE) >>],
       [category |-> "entity",
        patterns |-> << Pattern({"email"}, "none", FALSE),
                        Pattern({"phone"}, "b", TRUE) >>],
       [category |-> "fact", patterns |-> << Pattern({"is"}, "b", TRUE) >>] >>

detectCategory(t) ==
    LET lower == LowerText(t)
        hits == { k \in 1..Len(CategoryPatterns) :
                      Some(CategoryPatterns[k].patterns, lower) }
    IN  IF hits = {} THEN "other"
        ELSE CategoryPatterns[CHOOSE k \in hits : \A j \in hits : k <= j].category

\* the six tests of calculateImportance and what each adds, in hundredths
ImportanceTests ==
    << [patterns |-> << Pattern({"ru:vazhno", "important"}, "b", TRUE) >>, add |-> 20],
       [patterns |-> << Pattern({"remember"}, "b", TRUE),
                        Pattern({"ru:zapomni"}, "none", TRUE) >>, add |-> 15],
       [patterns |-> << Pattern({"email"}, "none", FALSE) >>, add |-> 10],
       [patterns |-> << Pattern({"my name"}, "b", TRUE) >>, add |-> 10],
       [patterns |-> << Pattern({"decided"}, "b", TRUE) >>, add |-> 10],
       [patterns |-> << Pattern({"ru:moi drug"}, "none", TRUE) >>, add |-> 10] >>

\* score after the first k tests
RECURSIVE ScoreAfter(_, _)
ScoreAfter(k, t) ==
    IF k = 0 THEN 50
    ELSE ScoreAfter(k - 1, t)
         + (IF Some(ImportanceTests[k].patterns, t) THEN ImportanceTests[k].add ELSE 0)

calculateImportance(t, entityCount) ==
    LET score == ScoreAfter(Len(ImportanceTests), t)
        boost == IF entityCount # {} /\ (\E n \in entityCount : n > 0)
                 THEN Min((CHOOSE n \in entityCount : TRUE) * 5, 15)
                 ELSE 0
    IN  Min(score + boost, 100)

TriggersOff ==
    /\ text = <<>>
    /\ lastCall = [fn |-> "off", args |-> <<>>, out |-> FALSE]

TriggersInit ==
    /\ text \in Texts
    /\ lastCall = [fn |-> "none", args |-> <<>>, out |-> FALSE]

\* a call returns; the model keeps its arguments and its result
CallShouldCapture ==
    /\ lastCall.fn = "none"
    /\ \E languages \in LanguageLists :
           lastCall' = [fn |-> "shouldCapture", args |-> languages,
                        out |-> shouldCapture(text, languages)]
    /\ UNCHANGED text
    /\ UNCHANGED <<inferVars, searchVars, enrichVars, morphVars, extractVars,
                 pluginVars, qdrantVars, nebulaVars>>

CallDetectCategory ==
    /\ lastCall.fn = "none"
    /\ lastCall' = [fn |-> "detectCategory", args |-> <<>>,
                    out |-> detectCategory(text)]
    /\ UNCHANGED text
    /\ UNCHANGED <<inferVars, searchVars, enrichVars, morphVars, extractVars,
                 pluginVars, qdrantVars, nebulaVars>>

CallCalculateImportance ==
    /\ lastCall.fn = "none"
    /\ \E entityCount \in EntityCounts :
           lastCall' = [fn |-> "calculateImportance", args |-> entityCount,
                        out |-> calculateImportance(text, entityCount)]
    /\ UNCHANGED text
    /\ UNCHANGED <<inferVars, searchVars, enrichVars, morphVars, extractVars,
                 pluginVars, qdrantVars, nebulaVars>>

TriggersNext == CallShouldCapture \/ CallDetectCategory \/ CallCalculateImportance

-----------------------------------------------------------------------------
(* entity-extractor.ts: extractEntities, extractRelations                  *)
(* The input is what the patterns matched in the text: the names matched   *)
(* for each entity type, the contact information, and the pairs of spans   *)
(* matched by the relation patterns, each in the order the code meets them. *)

\* matched names, and matched relation spans, of one text
MaxMatches == 3

\* ExtractedEntity
EntityWithoutProperties(type, name, props, conf) ==
    [type |-> type, name |-> name, properties |-> {}, confidence |-> conf]

Entity(type, name, props, conf) ==
    [type |-> type, name |-> name, properties |-> props, confidence |-> conf]

\* names the entity patterns match, after the validation of their type: two
\* spellings of a person name and another person, an organization and two
\* spellings of a concept
MatchPool ==
    { [type |-> "person", name |-> <<"A", "l">>],
      [type |-> "person", name |-> <<"A", "L">>],
      [type |-> "person", name |-> <<"B", "o">>],
      [type |-> "organization", name |-> <<"A", "l">>],
      [type |-> "location", name |-> <<"A", "l">>],
      [type |-> "concept", name |-> <<"a", "l">>],
      [type |-> "concept", name |-> <<"A", "l">>] }

\* first matches of PHONE_PATTERN, EMAIL_PATTERN and ROLE_PATTERNS: {} for
\* no match
ContactPool ==
    [phone : { {}, {<<"+", "1", "-", "2">>} },
     email : { {}, {<<"A", "l", "@", "x">>} },
     role : { {}, {<<"d", "e", "v">>} }]

\* spans the relation patterns match: the pattern list, the two captured
\* spans, and the captured relationship word
RelationMatchPool ==
    { [group |-> "works_at", first |-> <<"A", "l">>, second |-> <<"<<", "A", "l", ">>">>,
       word |-> <<>>],
      [group |-> "works_at", first |-> <<"a", "l">>, second |-> <<"A", "L">>, word |-> <<>>],
      [group |-> "knows", first |-> <<"A", "l">>, second |-> <<"B", "o">>, word |-> <<>>],
      [group |-> "knows", first |-> <<"a", "l">>, second |-> <<"B", "o">>, word |-> <<>>],
      [group |-> "knows", first |-> <<"A", "l">>, second |-> <<"A", "L">>, word |-> <<>>],
      [group |-> "relationship", first |-> <<"A", "l">>, second |-> <<"B", "o">>,
       word |-> <<"b", "o", "s", "s">>],
      [group |-> "relationship", first |-> <<"B", "o">>, second |-> <<"A", "l">>,
       word |-> <<"b", "o", "s", "s">>] }

\* the matched names of one type, in match order
NamesOfType(in, type) ==
    LET ms == SelectSeq(in.names, LAMBDA m : m.type = type)
    IN  [i \in 1..Len(ms) |-> ms[i].name]

\* the candidates Map of an extractor: keyed by name.toLowerCase(), a name
\* whose key is present is skipped
RECURSIVE CandidatesLastWins(_, _, _, _)
CandidatesLastWins(names, type, props, conf) ==
    IF names = <<>> THEN <<>>
    ELSE LET rest == CandidatesLastWins(SubSeq(names, 1, Len(names) - 1), type, props, conf)
             name == names[Len(names)]
             same == { k \in 1..Len(rest) :
                           ToLowerCase(rest[k].name) = ToLowerCase(name) }
         IN  IF same # {}
             THEN [k \in 1..Len(rest) |->
                      IF k \in same THEN Entity(type, name, props, conf) ELSE rest[k]]
             ELSE Append(rest, Entity(type, name, props, conf))

RECURSIVE Candidates(_, _, _, _)
Candidates(names, type, props, conf) ==
    IF names = <<>> THEN <<>>
    ELSE LET rest == Candidates(SubSeq(names, 1, Len(names) - 1), type, props, conf)
             name == names[Len(names)]
         IN  IF \E k \in 1..Len(rest) : ToLowerCase(rest[k].name) = ToLowerCase(name)
             THEN rest
             ELSE Append(rest, Entity(type, name, props, conf))

\* .replace(/[-.\s]/g, "")
StripSeparators(s) == SelectSeq(s, LAMBDA c : c \notin {"-", ".", " "})

\* phone and email as extractPersons and extractContactInfo store them
ContactProperties(contact) ==
    { <<"phone", StripSeparators(v)>> : v \in contact.phone }
    \cup { <<"email", ToLowerCase(v)>> : v \in contact.email }

\* extractPersons: the candidates, contact information and role attached to
\* the first of them
extractPersons(in) ==
    LET cs == Candidates(NamesOfType(in, "person"), "person", {}, 80)
    IN  IF cs = <<>> THEN <<>>
        ELSE << [cs[1] EXCEPT !.properties =
                    ContactProperties(in.contact)
                    \cup { <<"role", Trim(v)>> : v \in in.contact.role }] >>
             \o Tail(cs)

\* extractContactInfo(text, existingEntities)
extractContactInfo(in, existingEntities) ==
    IF /\ \A i \in 1..Len(existingEntities) : existingEntities[i].type # "person"
       /\ (in.contact.phone # {} \/ in.contact.email # {})
    THEN << Entity("person",
                   IF in.contact.email # {}
                      /\ Split(CHOOSE v \in in.contact.email : TRUE, "@")[1] # <<>>
                   THEN Split(CHOOSE v \in in.contact.email : TRUE, "@")[1]
                   ELSE <<"C", "o", "n", "t", "a", "c", "t">>,
                   ContactProperties(in.contact), 50) >>
    ELSE <<>>

\* `${e.type}:${e.name.toLowerCase()}`
EntityKey(e) == <<e.type, ":">> \o ToLowerCase(e.name)

\* the loop over `entities` with the `seen` Set
RECURSIVE DeduplicateEntities(_)
DeduplicateEntities(es) ==
    IF es = <<>> THEN <<>>
    ELSE LET rest == DeduplicateEntities(SubSeq(es, 1, Len(es) - 1))
             e == es[Len(es)]
         IN  IF \E k \in 1..Len(rest) : EntityKey(rest[k]) = EntityKey(e)
             THEN rest ELSE Append(rest, e)

extractEntities(in) ==
    LET typed == extractPersons(in)
                 \o Candidates(NamesOfType(in, "organization"), "organization", {}, 70)
                 \o Candidates(NamesOfType(in, "location"), "location", {}, 70)
                 \o Candidates(NamesOfType(in, "concept"), "concept",
                               {<<"category", <<"technology">>>>}, 60)
    IN  DeduplicateEntities(typed \o extractContactInfo(in, typed))

\* name.trim().replace(/[«»""]/g, "").trim()
normalizeOrgName(name) ==
    Trim(SelectSeq(Trim(name), LAMBDA c : c \notin {"<<", ">>", "''"}))

\* validateAndNormalizePerson(match) || match.trim()
PersonOrRaw(span) ==
    LET valid == validateAndNormalizePerson(<<>>, span)
    IN  IF valid # {} /\ valid # {<<>>} THEN CHOOSE v \in valid : TRUE ELSE Trim(span)

\* the relations one pattern list pushes for its matches
RelationsOf(m) ==
    LET person1 == PersonOrRaw(m.first)
        person2 == PersonOrRaw(m.second)
    IN  CASE m.group = "works_at" ->
               IF Len(person1) >= 2 /\ Len(normalizeOrgName(m.second)) >= 2
               THEN << Relation("person", person1, "organization",
                                normalizeOrgName(m.second),
                                "works_at", {}, 80) >>
               ELSE <<>>
          [] m.group = "knows" ->
               IF /\ Len(person1) >= 2 /\ Len(person2) >= 2
                  /\ ToLowerCase(person1) # ToLowerCase(person2)
               THEN << Relation("person", person1, "person", person2, "knows",
                                { <<"relationship", <<"acquaintance">>>>,
                                  <<"strength", <<"0.5">>>> }, 70) >>
               ELSE <<>>
          [] m.group = "relationship" ->
               IF Len(person1) >= 2 /\ Len(person2) >= 2
               THEN << Relation("person", person1, "person", person2, "knows",
                                { <<"relationship", ToLowerCase(m.word)>>,
                                  <<"strength", <<"0.8">>>> }, 80) >>
               ELSE <<>>

\* the relations pushed for the matches of one pattern list, in match order
RECURSIVE RelationsOfGroup(_, _)
RelationsOfGroup(ms, group) ==
    IF ms = <<>> THEN <<>>
    ELSE (IF Head(ms).group = group THEN RelationsOf(Head(ms)) ELSE <<>>)
         \o RelationsOfGroup(Tail(ms), group)

\* `${r.sourceName.toLowerCase()}-${r.relationType}-${r.targetName.toLowerCase()}`
RelationKey(r) ==
    ToLowerCase(r.sourceName) \o <<"-", r.relationType, "-">>
    \o ToLowerCase(r.targetName)

\* the loop over `relations` with the `seen` Set
DeduplicateRelationsKeepAll(rs) == rs

RECURSIVE DeduplicateRelations(_)
DeduplicateRelations(rs) ==
    IF rs = <<>> THEN <<>>
    ELSE LET rest == DeduplicateRelations(SubSeq(rs, 1, Len(rs) - 1))
             r == rs[Len(rs)]
         IN  IF \E k \in 1..Len(rest) : RelationKey(rest[k]) = RelationKey(r)
             THEN rest ELSE Append(rest, r)

\* the relations pushed before the deduplication, in the order of the code
PushedRelations(in) ==
    RelationsOfGroup(in.relations, "works_at")
    \o RelationsOfGroup(in.relations, "knows")
    \o RelationsOfGroup(in.relations, "relationship")

extractRelations(in) == DeduplicateRelations(PushedRelations(in))

NoContact == [phone |-> {}, email |-> {}, role |-> {}]

ExtractOff ==
    /\ extractInput = [names |-> <<>>, contact |-> NoContact, relations |-> <<>>]
    /\ extractOutput = [fn |-> "off", out |-> <<>>]

\* a text with entity matches, or a text with relation matches
ExtractInit ==
    /\ extractInput \in
         [names : SeqsUpTo(MatchPool, MaxMatches), contact : ContactPool,
          relations : {<<>>}]
         \cup
         [names : {<<>>}, contact : {NoContact},
          relations : SeqsUpTo(RelationMatchPool, MaxMatches)]
    /\ extractOutput = [fn |-> "none", out |-> <<>>]

CallExtractEntities ==
    /\ extractOutput.fn = "none"
    /\ extractOutput' = [fn |-> "extractEntities", out |-> extractEntities(extractInput)]
    /\ UNCHANGED extractInput
    /\ UNCHANGED <<inferVars, searchVars, enrichVars, morphVars, triggerVars,
                 pluginVars, qdrantVars, nebulaVars>>

CallExtractRelations ==
    /\ extractOutput.fn = "none"
    /\ extractOutput' = [fn |-> "extractRelations", out |-> extractRelations(extractInput)]
    /\ UNCHANGED extractInput
    /\ UNCHANGED <<inferVars, searchVars, enrichVars, morphVars, triggerVars,
                 pluginVars, qdrantVars, nebulaVars>>

ExtractNext == CallExtractEntities \/ CallExtractRelations

-----------------------------------------------------------------------------
(* index.ts: the memory_store and memory_forget tools, the agent_end hook  *)
(* A handler run is one step: its inputs, and what the collaborators       *)
(* answer, are drawn when it runs; pluginEffects lists the requests it     *)
(* made to the vector store and to the graph.                              *)

\* messages of one agent_end event
MaxMessages == 4

\* candidates qdrant.search hands to memory_forget
MaxCandidates == 2

\* a text: what the trigger patterns see of it (fragments), what the
\* extraction patterns match in it (matches), and extractEntities(text) and
\* extractRelations(text)
StoredText(id, fragments, matches) ==
    [id |-> id, fragments |-> fragments, matches |-> matches,
     entities |-> extractEntities(matches),
     relations |-> extractRelations(matches)]

\* texts the tools and the hook meet
StoredTexts ==
    { StoredText("friend", <<"Remember", " ", "important">>,
          [names |-> << [type |-> "person", name |-> <<"A", "l">>] >>,
           contact |-> NoContact,
           relations |-> << [group |-> "knows", first |-> <<"A", "l">>,
                             second |-> <<"B", "o">>, word |-> <<>>] >>]),
      StoredText("job", <<"decided", " ", "Prefer">>,
          [names |-> << [type |-> "person", name |-> <<"A", "l">>],
                        [type |-> "organization", name |-> <<"A", " ", "l">>] >>,
           contact |-> NoContact,
           relations |-> << [group |-> "works_at", first |-> <<"A", "l">>,
                             second |-> <<"A", " ", "l">>, word |-> <<>>] >>]),
      StoredText("home", <<"ru:zapomni", " ", "long">>,
          [names |-> << [type |-> "location", name |-> <<"A", "l">>] >>,
           contact |-> NoContact, relations |-> <<>>]),
      StoredText("chat", <<"is", " ", "phone">>,
          [names |-> <<>>, contact |-> NoContact, relations |-> <<>>]) }

TextOf(id) == CHOOSE t \in StoredTexts : t.id = id

\* event.messages: user messages with string content, and a tool result
Messages ==
    { [role |-> "user", content |-> TextOf("friend")],
      [role |-> "user", content |-> TextOf("home")],
      [role |-> "user", content |-> TextOf("chat")],
      [role |-> "toolResult", content |-> TextOf("friend")] }

\* the importance parameter of memory_store, in hundredths: {} is undefined
ImportanceParams == { {}, {-50}, {0}, {70}, {100}, {150} }

\* cfg.languages
ConfiguredLanguages == <<"en", "ru">>

\* what a handler run asks of the collaborators is a sequence of requests,
\* in the order it makes them; "throw" is an exception that leaves the loop
\* or the handler
Request(op, about, args) == [op |-> op, about |-> about, args |-> args]

\* .replace(/\s+/g, "_"): the first space of a run becomes "_", the others
\* go
ReplaceWhitespace(s) ==
    SelectSeq([i \in 1..Len(s) |->
                  IF s[i] # " " THEN s[i]
                  ELSE IF i > 1 /\ s[i - 1] = " " THEN "" ELSE "_"],
              LAMBDA c : c # "")

\* `${type}_${name.toLowerCase().replace(/\s+/g, "_")}`
EntityId(type, name) == <<type, "_">> \o ReplaceWhitespace(ToLowerCase(name))

\* if (entityIds.includes(sourceId) || entityIds.includes(targetId))
RelationIsCreated(entityIds, sourceId, targetId) ==
    \/ \E i \in 1..Len(entityIds) : entityIds[i] = sourceId
    \/ \E i \in 1..Len(entityIds) : entityIds[i] = targetId

\* from the extraction to linkMemory, as memory_store and agent_end both do
\* it; graphThrows: nebula.ensureEntities rejects
StoreText(t, detectedImportance, detectedCategory, graphEnrichment, graphThrows) ==
    LET extracted == t.entities
        useGraph == Len(extracted) > 0 /\ graphEnrichment
        entityIds == IF useGraph
                     THEN [i \in 1..Len(extracted) |->
                              EntityId(extracted[i].type, extracted[i].name)]
                     ELSE <<>>
        relations == t.relations
        considered ==
            [i \in 1..Len(relations) |->
                Request("createRelation", t.id,
                    [sourceId |-> EntityId(relations[i].sourceType,
                                           relations[i].sourceName),
                     targetId |-> EntityId(relations[i].targetType,
                                           relations[i].targetName),
                     type |-> relations[i].relationType,
                     entityIds |-> entityIds])]
    IN  IF ~useGraph
        THEN << Request("upsert", t.id,
                        [category |-> detectedCategory,
                         importance |-> detectedImportance,
                         entityIds |-> <<>>]) >>
        ELSE << Request("ensureEntities", t.id,
                        [types |-> [i \in 1..Len(extracted) |-> extracted[i].type]]) >>
             \o (IF graphThrows THEN << Request("throw", t.id, [from |-> "nebula"]) >>
                 ELSE SelectSeq(considered,
                                LAMBDA r : RelationIsCreated(r.args.entityIds,
                                                             r.args.sourceId,
                                                             r.args.targetId))
                      \o << Request("upsert", t.id,
                                    [category |-> detectedCategory,
                                     importance |-> detectedImportance,
                                     entityIds |-> entityIds]),
                            Request("linkMemory", t.id, [entityIds |-> entityIds]) >>)

\* the requests end with an exception
Throws(requests) ==
    requests # <<>> /\ requests[Len(requests)].op = "throw"

\* memory_store.execute; existing: the duplicate search found a memory
memory_store(t, importanceParam, category, existing, graphEnrichment, graphThrows) ==
    IF existing THEN <<>>
    ELSE StoreText(t,
                   IF importanceParam # {} THEN CHOOSE v \in importanceParam : TRUE
                   ELSE calculateImportance(t.fragments, {}),
                   IF category # {} THEN CHOOSE c \in category : TRUE
                   ELSE detectCategory(t.fragments),
                   graphEnrichment, graphThrows)

\* extractMessageTexts, for string contents
extractMessageTexts(messages) ==
    LET kept == SelectSeq(messages, LAMBDA m : m.role \in {"user", "assistant"})
    IN  [i \in 1..Len(kept) |-> kept[i].content]

\* toCapture.slice(0, 3)
CaptureSliceWhole(toCapture) == toCapture

CaptureSlice(toCapture) == SubSeq(toCapture, 1, Min(3, Len(toCapture)))

\* the loop of agent_end over the texts to capture, from the k-th on;
\* existing: the iterations in which qdrant.search(vector, 1, 0.95) finds a
\* memory.  What ensureEntities throws ends the loop in the catch.
RECURSIVE CaptureLoop(_, _, _, _, _)
CaptureLoop(texts, k, existing, graphEnrichment, graphThrows) ==
    IF k > Len(texts) THEN <<>>
    ELSE IF k \in existing
         THEN CaptureLoop(texts, k + 1, existing, graphEnrichment, graphThrows)
         ELSE LET one == StoreText(texts[k],
                                   calculateImportance(texts[k].fragments, {}),
                                   detectCategory(texts[k].fragments),
                                   graphEnrichment, graphThrows)
              IN  IF Throws(one) THEN one
                  ELSE one \o CaptureLoop(texts, k + 1, existing,
                                          graphEnrichment, graphThrows)

\* the agent_end handler; messages = {} is an event without messages
agent_end(success, messages, existing, graphEnrichment, graphThrows) ==
    IF ~success \/ messages = {} THEN <<>>
    ELSE LET list == CHOOSE m \in messages : TRUE
         IN  IF Len(list) = 0 THEN <<>>
             ELSE CaptureLoop(
                      CaptureSlice(
                          SelectSeq(extractMessageTexts(list),
                              LAMBDA t : shouldCapture(t.fragments,
                                                       ConfiguredLanguages))),
                      1, existing, graphEnrichment, graphThrows)

\* results of qdrant.search(vector, 5, 0.7): ids, one of them not a UUID,
\* and scores in hundredths
SearchResults ==
    [id : {"uuid-1", "uuid-2", "not-a-uuid"}, score : {70, 90, 91}]

\* results.length === 1 && results[0].score > 0.9
SingleHighConfidenceAtLeast(found) == Len(found) = 1 /\ found[1].score >= 90

SingleHighConfidence(found) == Len(found) = 1 /\ found[1].score > 90

\* qdrant.delete(id) then nebula.unlinkMemory(id); delete throws on an id
\* that is not a UUID, before anything is sent
DeleteAndUnlink(id) ==
    IF id = "not-a-uuid" THEN << Request("throw", id, [from |-> "qdrant"]) >>
    ELSE << Request("delete", id, [from |-> "qdrant"]),
            Request("unlinkMemory", id, [from |-> "nebula"]) >>

\* memory_forget.execute; {} is a parameter left out
memory_forget(query, memoryId, found) ==
    IF memoryId # {} THEN DeleteAndUnlink(CHOOSE id \in memoryId : TRUE)
    ELSE IF query # {}
         THEN IF Len(found) = 0 THEN <<>>
              ELSE IF SingleHighConfidence(found)
                   THEN DeleteAndUnlink(found[1].id)
                   ELSE <<>>
         ELSE <<>>

PluginOff ==
    /\ pluginCall = [fn |-> "off"]
    /\ pluginEffects = <<>>

\* the plugin is registered and no handler has run
PluginInit ==
    /\ pluginCall = [fn |-> "none"]
    /\ pluginEffects = <<>>

MemoryStore ==
    /\ pluginCall.fn = "none"
    /\ \E t \in StoredTexts, importanceParam \in ImportanceParams,
          category \in { {}, {"fact"} },
          existing, graphEnrichment \in BOOLEAN :
       \E graphThrows \in IF graphEnrichment THEN BOOLEAN ELSE {FALSE} :
           /\ pluginCall' = [fn |-> "memory_store", text |-> t.id,
                             importance |-> importanceParam, existing |-> existing]
           /\ pluginEffects' = memory_store(t, importanceParam, category, existing,
                                            graphEnrichment, graphThrows)
    /\ UNCHANGED <<coreVars, qdrantVars, nebulaVars>>

AgentEnd ==
    /\ pluginCall.fn = "none"
    /\ \E success, graphEnrichment \in BOOLEAN,
          messages \in { {} } \cup { {m} : m \in SeqsUpTo(Messages, MaxMessages) },
          existing \in SUBSET (1..3) :
       \E graphThrows \in IF graphEnrichment THEN BOOLEAN ELSE {FALSE} :
           /\ pluginCall' = [fn |-> "agent_end", success |-> success,
                             messages |-> { [i \in 1..Len(m) |->
                                               [role |-> m[i].role,
                                                content |-> m[i].content.id]] :
                                            m \in messages },
                             existing |-> existing]
           /\ pluginEffects' = agent_end(success, messages, existing,
                                         graphEnrichment, graphThrows)
    /\ UNCHANGED <<coreVars, qdrantVars, nebulaVars>>

MemoryForget ==
    /\ pluginCall.fn = "none"
    /\ \E query \in { {}, {"q"} }, memoryId \in { {}, {"uuid-1"}, {"not-a-uuid"} },
          found \in SeqsUpTo(SearchResults, MaxCandidates) :
           /\ pluginCall' = [fn |-> "memory_forget", query |-> query,
                             memoryId |-> memoryId, results |-> found]
           /\ pluginEffects' = memory_forget(query, memoryId, found)
    /\ UNCHANGED <<coreVars, qdrantVars, nebulaVars>>

PluginNext == MemoryStore \/ AgentEnd \/ MemoryForget

-----------------------------------------------------------------------------
(* index.ts: QdrantMemoryClient                                            *)
(* Operations (upsert, search, delete, ...) run concurrently on one       *)
(* client; each step is the code between two awaits.                       *)

\* operations in flight on one client
MaxOperations == 2

Operations == 1..MaxOperations

\* the requests of doInitialize, in order
InitSteps ==
    <<"import", "getCollections", "createCollection", "createPayloadIndex category",
      "createPayloadIndex language", "createPayloadIndex importance">>

QdrantOff ==
    /\ qdrantClient = "off"
    /\ qdrantInitPromise = "null"
    /\ qdrantInitStep = "none"
    /\ qdrantOpPc = [c \in Operations |-> "idle"]
    /\ qdrantIssued = [c \in Operations |-> "none"]

\* new QdrantMemoryClient(...)
QdrantInit ==
    /\ qdrantClient = "null"
    /\ qdrantInitPromise = "null"
    /\ qdrantInitStep = "none"
    /\ qdrantOpPc = [c \in Operations |-> "idle"]
    /\ qdrantIssued = [c \in Operations |-> "none"]

\* an operation starts: await this.ensureInitialized(), up to its first await
QdrantEnsureInitialized(c) ==
    /\ qdrantOpPc[c] = "idle"
    /\ IF qdrantClient # "null"
       THEN /\ qdrantOpPc' = [qdrantOpPc EXCEPT ![c] = "initialized"]
            /\ UNCHANGED <<qdrantInitPromise, qdrantInitStep>>
       ELSE IF qdrantInitPromise # "null"
       THEN /\ qdrantOpPc' = [qdrantOpPc EXCEPT ![c] = "awaiting"]
            /\ UNCHANGED <<qdrantInitPromise, qdrantInitStep>>
       ELSE /\ qdrantInitPromise' = "pending"
            /\ qdrantInitStep' = InitSteps[1]
            /\ qdrantOpPc' = [qdrantOpPc EXCEPT ![c] = "awaiting"]
    /\ UNCHANGED <<qdrantClient, qdrantIssued>>
    /\ UNCHANGED <<coreVars, pluginVars, nebulaVars>>

\* doInitialize: the import resolves; the client is assigned and
\* getCollections is requested
QdrantImported ==
    /\ qdrantInitStep = "import"
    /\ qdrantClient' = "client"
    /\ qdrantInitStep' = "getCollections"
    /\ UNCHANGED <<qdrantInitPromise, qdrantOpPc, qdrantIssued>>
    /\ UNCHANGED <<coreVars, pluginVars, nebulaVars>>

\* doInitialize: getCollections answers
QdrantCollectionsListed ==
    /\ qdrantInitStep = "getCollections"
    /\ \E exists \in BOOLEAN :
           IF exists
           THEN qdrantInitStep' = "done" /\ qdrantInitPromise' = "fulfilled"
           ELSE qdrantInitStep' = "createCollection" /\ UNCHANGED qdrantInitPromise
    /\ UNCHANGED <<qdrantClient, qdrantOpPc, qdrantIssued>>
    /\ UNCHANGED <<coreVars, pluginVars, nebulaVars>>

\* doInitialize: createCollection or a createPayloadIndex answers
QdrantCreated ==
    /\ \E k \in 3..Len(InitSteps) :
           /\ qdrantInitStep = InitSteps[k]
           /\ IF k < Len(InitSteps)
              THEN qdrantInitStep' = InitSteps[k + 1] /\ UNCHANGED qdrantInitPromise
              ELSE qdrantInitStep' = "done" /\ qdrantInitPromise' = "fulfilled"
    /\ UNCHANGED <<qdrantClient, qdrantOpPc, qdrantIssued>>
    /\ UNCHANGED <<coreVars, pluginVars, nebulaVars>>

\* doInitialize: an awaited request rejects
QdrantInitializeFails ==
    /\ qdrantInitStep \in { InitSteps[k] : k \in 1..Len(InitSteps) }
    /\ qdrantInitStep' = "failed"
    /\ qdrantInitPromise' = "rejected"
    /\ UNCHANGED <<qdrantClient, qdrantOpPc, qdrantIssued>>
    /\ UNCHANGED <<coreVars, pluginVars, nebulaVars>>

\* the await on initPromise resumes
QdrantResume(c) ==
    /\ qdrantOpPc[c] = "awaiting"
    /\ qdrantInitPromise \in {"fulfilled", "rejected"}
    /\ qdrantOpPc' = [qdrantOpPc EXCEPT ![c] =
                         IF qdrantInitPromise = "fulfilled" THEN "initialized"
                         ELSE "rejected"]
    /\ UNCHANGED <<qdrantClient, qdrantInitPromise, qdrantInitStep, qdrantIssued>>
    /\ UNCHANGED <<coreVars, pluginVars, nebulaVars>>

\* this.client!.upsert(...), .search(...), ...: the request goes out;
\* qdrantIssued keeps how far doInitialize was
QdrantIssue(c) ==
    /\ qdrantOpPc[c] = "initialized"
    /\ qdrantOpPc' = [qdrantOpPc EXCEPT ![c] = "issued"]
    /\ qdrantIssued' = [qdrantIssued EXCEPT ![c] = qdrantInitStep]
    /\ UNCHANGED <<qdrantClient, qdrantInitPromise, qdrantInitStep>>
    /\ UNCHANGED <<coreVars, pluginVars, nebulaVars>>

\* the operation returns or throws
QdrantReturn(c) ==
    /\ qdrantOpPc[c] \in {"issued", "rejected"}
    /\ qdrantOpPc' = [qdrantOpPc EXCEPT ![c] = "idle"]
    /\ UNCHANGED <<qdrantClient, qdrantInitPromise, qdrantInitStep, qdrantIssued>>
    /\ UNCHANGED <<coreVars, pluginVars, nebulaVars>>

QdrantNext ==
    \/ \E c \in Operations : QdrantEnsureInitialized(c)
    \/ QdrantImported
    \/ QdrantCollectionsListed
    \/ QdrantCreated
    \/ QdrantInitializeFails
    \/ \E c \in Operations : QdrantResume(c)
    \/ \E c \in Operations : QdrantIssue(c)
    \/ \E c \in Operations : QdrantReturn(c)

-----------------------------------------------------------------------------
(* nebula-client.ts: NebulaMemoryClient                                    *)
(* Calls of execute run concurrently with each other and with close; each  *)
(* step is the code between two awaits.                                    *)

\* ensureSchema: the tags of tagQueries and the edge types of edgeQueries
SchemaTags == {"Person", "Organization", "Concept", "Memory"}

SchemaEdges == {"knows", "related_to", "mentions", "works_at", "belongs_to"}

\* upsertEntity: entity.type.charAt(0).toUpperCase() + entity.type.slice(1)
TagName(type) ==
    CASE type = "person" -> "Person"
      [] type = "organization" -> "Organization"
      [] type = "location" -> "Location"
      [] type = "concept" -> "Concept"

NebulaOff ==
    /\ nebulaSession = "off"
    /\ nebulaInitPromise = "null"
    /\ nebulaInitStep = "none"
    /\ nebulaOpPc = [c \in Operations |-> "idle"]
    /\ nebulaSent = [c \in Operations |-> "none"]
    /\ nebulaClosing = FALSE

\* new NebulaMemoryClient(...)
NebulaInit ==
    /\ nebulaSession = "null"
    /\ nebulaInitPromise = "null"
    /\ nebulaInitStep = "none"
    /\ nebulaOpPc = [c \in Operations |-> "idle"]
    /\ nebulaSent = [c \in Operations |-> "none"]
    /\ nebulaClosing = FALSE

\* execute starts: await this.ensureInitialized(), up to its first await
NebulaEnsureInitialized(c) ==
    /\ nebulaOpPc[c] = "idle"
    /\ IF nebulaSession # "null"
       THEN /\ nebulaOpPc' = [nebulaOpPc EXCEPT ![c] = "initialized"]
            /\ UNCHANGED <<nebulaInitPromise, nebulaInitStep>>
       ELSE IF nebulaInitPromise # "null"
       THEN /\ nebulaOpPc' = [nebulaOpPc EXCEPT ![c] = "awaiting"]
            /\ UNCHANGED <<nebulaInitPromise, nebulaInitStep>>
       ELSE /\ nebulaInitPromise' = "pending"
            /\ nebulaInitStep' = "connecting"
            /\ nebulaOpPc' = [nebulaOpPc EXCEPT ![c] = "awaiting"]
    /\ UNCHANGED <<nebulaSession, nebulaSent, nebulaClosing>>
    /\ UNCHANGED <<coreVars, pluginVars, qdrantVars>>

\* doInitialize: the client is ready; this.session = client, then
\* ensureSchema
NebulaReady ==
    /\ nebulaInitStep = "connecting"
    /\ nebulaSession' = "client"
    /\ nebulaInitStep' = "ensureSchema"
    /\ UNCHANGED <<nebulaInitPromise, nebulaOpPc, nebulaSent, nebulaClosing>>
    /\ UNCHANGED <<coreVars, pluginVars, qdrantVars>>

\* doInitialize: ensureSchema returns
NebulaSchemaEnsured ==
    /\ nebulaInitStep = "ensureSchema"
    /\ nebulaInitStep' = "done"
    /\ nebulaInitPromise' = "fulfilled"
    /\ UNCHANGED <<nebulaSession, nebulaOpPc, nebulaSent, nebulaClosing>>
    /\ UNCHANGED <<coreVars, pluginVars, qdrantVars>>

\* doInitialize: the import, the wait for "ready" (timeout or error event)
\* or the USE of ensureSchema rejects
NebulaInitializeFails ==
    /\ nebulaInitStep \in {"connecting", "ensureSchema"}
    /\ nebulaInitStep' = "failed"
    /\ nebulaInitPromise' = "rejected"
    /\ UNCHANGED <<nebulaSession, nebulaOpPc, nebulaSent, nebulaClosing>>
    /\ UNCHANGED <<coreVars, pluginVars, qdrantVars>>

\* the await on initPromise resumes
NebulaResume(c) ==
    /\ nebulaOpPc[c] = "awaiting"
    /\ nebulaInitPromise \in {"fulfilled", "rejected"}
    /\ nebulaOpPc' = [nebulaOpPc EXCEPT ![c] =
                         IF nebulaInitPromise = "fulfilled" THEN "initialized"
                         ELSE "rejected"]
    /\ UNCHANGED <<nebulaSession, nebulaInitPromise, nebulaInitStep, nebulaSent,
                   nebulaClosing>>
    /\ UNCHANGED <<coreVars, pluginVars, qdrantVars>>

\* const client = this.session; await client.execute(query): nebulaSent
\* keeps the session the query is handed to; on null the call throws
NebulaSend(c) ==
    /\ nebulaOpPc[c] = "initialized"
    /\ nebulaSent' = [nebulaSent EXCEPT ![c] = nebulaSession]
    /\ nebulaOpPc' = [nebulaOpPc EXCEPT ![c] =
                         IF nebulaSession = "null" THEN "threw" ELSE "sent"]
    /\ UNCHANGED <<nebulaSession, nebulaInitPromise, nebulaInitStep, nebulaClosing>>
    /\ UNCHANGED <<coreVars, pluginVars, qdrantVars>>

\* execute returns or throws
NebulaReturn(c) ==
    /\ nebulaOpPc[c] \in {"sent", "threw", "rejected"}
    /\ nebulaOpPc' = [nebulaOpPc EXCEPT ![c] = "idle"]
    /\ UNCHANGED <<nebulaSession, nebulaInitPromise, nebulaInitStep, nebulaSent,
                   nebulaClosing>>
    /\ UNCHANGED <<coreVars, pluginVars, qdrantVars>>

\* close(), with a session: up to the await of session.close()
NebulaClose ==
    /\ ~nebulaClosing
    /\ nebulaSession # "null"
    /\ nebulaClosing' = TRUE
    /\ UNCHANGED <<nebulaSession, nebulaInitPromise, nebulaInitStep, nebulaOpPc,
                   nebulaSent>>
    /\ UNCHANGED <<coreVars, pluginVars, qdrantVars>>

\* close(): session.close() settled; this.session = null
NebulaClosed ==
    /\ nebulaClosing
    /\ nebulaSession' = "null"
    /\ nebulaClosing' = FALSE
    /\ UNCHANGED <<nebulaInitPromise, nebulaInitStep, nebulaOpPc, nebulaSent>>
    /\ UNCHANGED <<coreVars, pluginVars, qdrantVars>>

NebulaNext ==
    \/ \E c \in Operations : NebulaEnsureInitialized(c)
    \/ NebulaReady
    \/ NebulaSchemaEnsured
    \/ NebulaInitializeFails
    \/ \E c \in Operations : NebulaResume(c)
    \/ \E c \in Operations : NebulaSend(c)
    \/ \E c \in Operations : NebulaReturn(c)
    \/ NebulaClose
    \/ NebulaClosed

-----------------------------------------------------------------------------
(* Specifications *)

InitInfer ==
    InferInit /\ SearchOff /\ EnrichOff /\ MorphOff /\ TriggersOff /\ ExtractOff
    /\ PluginOff /\ QdrantOff /\ NebulaOff

SpecInfer == InitInfer /\ [][InferCall]_vars

InitSearch ==
    SearchInit /\ InferOff /\ EnrichOff /\ MorphOff /\ TriggersOff /\ ExtractOff
    /\ PluginOff /\ QdrantOff /\ NebulaOff

SpecSearch == InitSearch /\ [][SearchNext]_vars

InitEnrich ==
    EnrichInit /\ InferOff /\ SearchOff /\ MorphOff /\ TriggersOff /\ ExtractOff
    /\ PluginOff /\ QdrantOff /\ NebulaOff

SpecEnrich == InitEnrich /\ [][EnrichNextStep]_vars

InitMorph ==
    MorphInit /\ InferOff /\ SearchOff /\ EnrichOff /\ TriggersOff /\ ExtractOff
    /\ PluginOff /\ QdrantOff /\ NebulaOff

SpecMorph == InitMorph /\ [][MorphNext]_vars

SpecLookup == InitMorph /\ [][LookupNext]_vars

InitTriggers ==
    TriggersInit /\ InferOff /\ SearchOff /\ EnrichOff /\ MorphOff /\ ExtractOff
    /\ PluginOff /\ QdrantOff /\ NebulaOff

SpecTriggers == InitTriggers /\ [][TriggersNext]_vars

InitExtract ==
    ExtractInit /\ InferOff /\ SearchOff /\ EnrichOff /\ MorphOff /\ TriggersOff
    /\ PluginOff /\ QdrantOff /\ NebulaOff

SpecExtract == InitExtract /\ [][ExtractNext]_vars

InitPlugin ==
    PluginInit /\ InferOff /\ SearchOff /\ EnrichOff /\ MorphOff /\ TriggersOff
    /\ ExtractOff /\ QdrantOff /\ NebulaOff

SpecPlugin == InitPlugin /\ [][PluginNext]_vars

InitQdrant ==
    QdrantInit /\ InferOff /\ SearchOff /\ EnrichOff /\ MorphOff /\ TriggersOff
    /\ ExtractOff /\ PluginOff /\ NebulaOff

SpecQdrant == InitQdrant /\ [][QdrantNext]_vars

InitNebula ==
    NebulaInit /\ InferOff /\ SearchOff /\ EnrichOff /\ MorphOff /\ TriggersOff
    /\ ExtractOff /\ PluginOff /\ QdrantOff

SpecNebula == InitNebula /\ [][NebulaNext]_vars

-----------------------------------------------------------------------------
(* Claims about inferImplicitRelations *)

\* R connects the names x and y, in either direction, case-insensitively
Connects(R, x, y) ==
    \E i \in 1..Len(R) :
        \/ /\ ToLowerCase(R[i].sourceName) = ToLowerCase(x)
           /\ ToLowerCase(R[i].targetName) = ToLowerCase(y)
        \/ /\ ToLowerCase(R[i].sourceName) = ToLowerCase(y)
           /\ ToLowerCase(R[i].targetName) = ToLowerCase(x)

\* C1: no relation returned by inferImplicitRelations(E, R) connects two
\* names that R already connects, in either direction, compared lowercased.
C1_NoShadowing ==
    inferPc = "done" =>
        \A k \in 1..Len(implicit) :
            ~Connects(explicitRelations,
                      implicit[k].sourceName, implicit[k].targetName)

\* C1 witness: an explicit relation connects a person and an organization of
\* the entity list (spelled in another case, and reversed), and the call
\* returned without a relation between them.
C1_Witness ==
    /\ inferPc = "done"
    /\ entities = << [type |-> "person", name |-> <<"A">>],
                     [type |-> "organization", name |-> <<"b">>] >>
    /\ explicitRelations =
         << Relation("person", <<"b">>, "organization", <<"a">>,
                     "works_at", {}, 80) >>
    /\ implicit = <<>>

TargetTypes == {"organization", "location", "concept"}

\* number of positions of E holding the entity e
Occurrences(E, e) == Cardinality({ i \in 1..Len(E) : E[i] = e })

\* number of returned relations from person p to entity x
RelationsFromTo(out, p, x) ==
    Cardinality({ k \in 1..Len(out) :
        /\ out[k].sourceName = p.name
        /\ out[k].targetName = x.name
        /\ out[k].targetType = x.type })

\* C2: for every person p and every organization, location or concept x of E
\* whose names no relation of R connects (either direction, lowercased), the
\* call returns exactly one relation from p to x per occurrence of the pair
\* in E, for all names, hyphenated names included.
C2_OnePerUnconnectedPair ==
    inferPc = "done" =>
        \A i, j \in 1..Len(entities) :
            ( /\ entities[i].type = "person"
              /\ entities[j].type \in TargetTypes
              /\ ~Connects(explicitRelations, entities[i].name, entities[j].name) )
            => RelationsFromTo(implicit, entities[i], entities[j])
                 = Occurrences(entities, entities[i])
                   * Occurrences(entities, entities[j])

\* C3: every returned relation is related_to with confidence 0.4 and
\* inferred = true, from a person of E to an organization, location or
\* concept of E; no returned relation has a person as its target.
C3_InferredShape ==
    inferPc = "done" =>
        \A k \in 1..Len(implicit) :
            /\ implicit[k].relationType = "related_to"
            /\ implicit[k].confidence = 40
            /\ <<"inferred", TRUE>> \in implicit[k].properties
            /\ implicit[k].sourceType = "person"
            /\ implicit[k].targetType \in TargetTypes
            /\ \E i \in 1..Len(entities) :
                 entities[i] = [type |-> "person", name |-> implicit[k].sourceName]
            /\ \E j \in 1..Len(entities) :
                 entities[j] = [type |-> implicit[k].targetType,
                                name |-> implicit[k].targetName]

\* C3 witness: two persons and a location co-occur; relations are returned to
\* the location only, none between the persons.
C3_Witness ==
    /\ inferPc = "done"
    /\ explicitRelations = <<>>
    /\ Len(entities) = 2
    /\ entities[1] = [type |-> "person", name |-> <<"A">>]
    /\ entities[2] = [type |-> "location", name |-> <<"b", "-", "b">>]
    /\ Len(implicit) = 1

\* no two entities of one type and one lower-cased name
UniqueEntityKeys(E) ==
    \A i, j \in 1..Len(E) :
        (E[i].type = E[j].type /\ ToLowerCase(E[i].name) = ToLowerCase(E[j].name))
            => i = j

\* C30 as stated: given entities with unique (type, lower-cased name) keys,
\* inferImplicitRelations returns no two relations with one lower-cased
\* source name, relation type and lower-cased target name.
C30_UniqueByNames ==
    (inferPc = "done" /\ UniqueEntityKeys(entities)) =>
        \A i, j \in 1..Len(implicit) :
            (/\ ToLowerCase(implicit[i].sourceName) = ToLowerCase(implicit[j].sourceName)
             /\ implicit[i].relationType = implicit[j].relationType
             /\ ToLowerCase(implicit[i].targetName) = ToLowerCase(implicit[j].targetName))
                => i = j

\* C30 amended: given entities with unique (type, lower-cased name) keys,
\* inferImplicitRelations returns no two relations with one lower-cased
\* source name, relation type, target type and lower-cased target name.
C30_UniqueByNamesAndTargetType ==
    (inferPc = "done" /\ UniqueEntityKeys(entities)) =>
        \A i, j \in 1..Len(implicit) :
            (/\ ToLowerCase(implicit[i].sourceName) = ToLowerCase(implicit[j].sourceName)
             /\ implicit[i].relationType = implicit[j].relationType
             /\ implicit[i].targetType = implicit[j].targetType
             /\ ToLowerCase(implicit[i].targetName) = ToLowerCase(implicit[j].targetName))
                => i = j

\* a person, and an organization and a location of one name: two relations
\* are returned, alike but for the target type
C30_Witness ==
    /\ inferPc = "done"
    /\ entities = << [type |-> "person", name |-> <<"b">>],
                     [type |-> "organization", name |-> <<"a">>],
                     [type |-> "location", name |-> <<"A">>] >>
    /\ UniqueEntityKeys(entities)
    /\ Len(implicit) = 2
    /\ implicit[1].targetType = "organization"
    /\ implicit[2].targetType = "location"

-----------------------------------------------------------------------------
(* Claims about HybridSearch.search and mergeResults *)

InVectorList(id) == \E i \in 1..Len(vectorResults) : vectorResults[i].id = id

InGraphSet(id) == \E i \in 1..Len(graphMemoryIds) : graphMemoryIds[i] = id

SimilarityOf(id) ==
    vectorResults[CHOOSE i \in 1..Len(vectorResults) : vectorResults[i].id = id].score

\* C4: in the merged result set each result's provenance and component
\* scores are fixed by membership: in both -> both, similarity, 0.5; vector
\* only -> vector, similarity, 0; graph only -> graph, 0, 0.7; and
\* mergeResults gives the same identifiers the same two scores.
C4_ProvenanceByMembership ==
    searchPc = "returned" =>
        \A k \in 1..Len(results) :
            LET r == results[k]
                inV == InVectorList(r.id)
                inG == InGraphSet(r.id)
                m == mergeResults(vectorResults, graphMemoryIds, opts.hybridWeight)
            IN  /\ inV \/ inG
                /\ (inV /\ inG) =>
                      /\ r.source = "both"
                      /\ r.vectorScore = SimilarityOf(r.id)
                      /\ r.graphScore = 5
                /\ (inV /\ ~inG) =>
                      /\ r.source = "vector"
                      /\ r.vectorScore = SimilarityOf(r.id)
                      /\ r.graphScore = 0
                /\ (~inV /\ inG) =>
                      /\ r.source = "graph"
                      /\ r.vectorScore = 0
                      /\ r.graphScore = 7
                /\ r.id \in DOMAIN m
                /\ m[r.id].vectorScore = r.vectorScore
                /\ m[r.id].graphScore = r.graphScore

\* C4 witness: a merged result set holding a result of each provenance.
C4_Witness ==
    /\ searchPc = "returned"
    /\ \E i, j, k \in 1..Len(results) :
         /\ results[i].source = "both"
         /\ results[j].source = "vector"
         /\ results[k].source = "graph"

ReturnedIds == { returned[i].id : i \in 1..Len(returned) }

\* C6: the returned list is in non-increasing combinedScore order, has at
\* most `limit` elements, holds each identifier at most once, and every merged
\* result left out scores no more than every returned result.
C6_RankedAndTruncated ==
    searchPc = "returned" =>
        /\ \A i \in 1..(Len(returned) - 1) :
             returned[i].combinedScore >= returned[i + 1].combinedScore
        /\ Len(returned) <= opts.limit
        /\ \A i, j \in 1..Len(returned) :
             i # j => returned[i].id # returned[j].id
        /\ \A k \in 1..Len(results) :
             results[k].id \notin ReturnedIds =>
                 \A j \in 1..Len(returned) :
                     results[k].combinedScore <= returned[j].combinedScore

\* C6 witness: three merged results, two returned, and the graph-only result,
\* inserted last, ranked first.
C6_Witness ==
    /\ searchPc = "returned"
    /\ Len(results) = 3
    /\ Len(returned) = 2
    /\ returned[1].source = "graph"
    /\ returned[1].combinedScore > returned[2].combinedScore
    /\ results[3].combinedScore < returned[2].combinedScore

\* C7: with hybridWeight in [0, 1], of two results that differ only in
\* vectorScore (only in graphScore) the one with the larger component never
\* has the smaller combinedScore.
C7_Monotone ==
    (searchPc = "returned" /\ opts.hybridWeight \in 0..10) =>
        \A i, j \in 1..Len(results) :
            /\ ( /\ results[i].graphScore = results[j].graphScore
                 /\ results[i].importance = results[j].importance
                 /\ results[i].vectorScore <= results[j].vectorScore )
               => results[i].combinedScore <= results[j].combinedScore
            /\ ( /\ results[i].vectorScore = results[j].vectorScore
                 /\ results[i].importance = results[j].importance
                 /\ results[i].graphScore <= results[j].graphScore )
               => results[i].combinedScore <= results[j].combinedScore

\* C7 witness: one pair of results differing only in vectorScore and one pair
\* differing only in graphScore, each ranked by that component.
C7_Witness ==
    /\ searchPc = "returned"
    /\ opts.hybridWeight = 7
    /\ \E i, j \in 1..Len(results) :
         /\ results[i].graphScore = results[j].graphScore
         /\ results[i].importance = results[j].importance
         /\ results[i].vectorScore < results[j].vectorScore
         /\ results[i].combinedScore < results[j].combinedScore
    /\ \E i, j \in 1..Len(results) :
         /\ results[i].vectorScore = results[j].vectorScore
         /\ results[i].importance = results[j].importance
         /\ results[i].graphScore < results[j].graphScore
         /\ results[i].combinedScore < results[j].combinedScore

\* C8: when findRelatedMemories fails during search, search does not fail
\* but goes on with an empty graph set and returns the ranked vector results.
C8_GraphFailureTolerated ==
    graphOutcome = "threw" => searchPc # "failed"

-----------------------------------------------------------------------------
(* Claims about HybridSearch.enrichWithEntities *)

\* the lookup left the result without entity identifiers to attach
NothingToAttach(lookup) ==
    \/ lookup.kind \in {"throws", "absent"}
    \/ lookup.entityIds = {}
    \/ lookup.entityIds = { <<>> }

\* C9: enrichWithEntities never fails and returns one result per input
\* result, in input order, with the same identifier and scores; a result whose
\* lookup throws, returns nothing or has no entity identifiers is unmodified.
C9_EnrichKeepsResults ==
    /\ enrichPc # "failed"
    /\ enrichPc = "done" =>
         /\ Len(enriched) = Len(enrichInput)
         /\ \A i \in 1..Len(enriched) :
              /\ enriched[i].id = enrichInput[i].id
              /\ enriched[i].vectorScore = enrichInput[i].vectorScore
              /\ enriched[i].graphScore = enrichInput[i].graphScore
              /\ enriched[i].combinedScore = enrichInput[i].combinedScore
              /\ enriched[i].source = enrichInput[i].source
              /\ NothingToAttach(lookups[i]) => enriched[i] = enrichInput[i]

\* C9 witness: two results enriched, the first lookup threw and the result
\* was kept, the second attached an entity.
C9_Witness ==
    /\ enrichPc = "done"
    /\ Len(enriched) = 2
    /\ lookups[1].kind = "throws"
    /\ enriched[1] = enrichInput[1]
    /\ enriched[2].entities =
         { << [id |-> <<"p", "_", "j", "_", "s">>,
               type |-> <<"p">>,
               name |-> <<"J", " ", "S">>] >> }

-----------------------------------------------------------------------------
(* Claims about ensureMorphInit *)

\* C10: while an initialization is in flight or after it has succeeded, the
\* dictionary load has been started exactly once, however many calls were
\* made, and every call made during the in-flight attempt completes with the
\* outcome of that attempt.
C10_SingleInit ==
    /\ (initPromise = "pending" \/ initialized) => initStarted = 1
    /\ \A c \in Callers :
         (joined[c] = "inflight" /\ callState[c] \in {"fulfilled", "rejected"})
             => callState[c] = initPromise

\* C10 witness: an initialization started once has succeeded, two calls made
\* while it was in flight have completed, and a call was made after it.
C10_Witness ==
    /\ initialized
    /\ initStarted = 1
    /\ \E c1, c2, c3 \in Callers :
         /\ joined[c1] = "inflight" /\ callState[c1] = "fulfilled"
         /\ joined[c2] = "inflight" /\ callState[c2] = "fulfilled"
         /\ c1 # c2
         /\ joined[c3] = "after" /\ callState[c3] = "fulfilled"

-----------------------------------------------------------------------------
(* Claims about the morphology lookups *)

\* what validateAndNormalizePerson gives when only the regular-expression
\* checks apply: the trimmed name with single spaces, or null
RegexOnlyPerson(name) ==
    LET trimmed == Trim(name)
        words == SplitWhitespace(trimmed)
    IN  IF /\ Len(trimmed) >= 2
           /\ ToLowerCase(trimmed) \notin commonFalsePositives
           /\ \A i \in 1..Len(words) : StartsUpperCase(words[i])
        THEN {Join(words, " ")}
        ELSE {}

\* C11: a lookup made while the morphology provider is not ready (never
\* initialized, initialization in flight, or failed) returns a value and
\* never an error: normalize returns its input word, isProperName,
\* isGeoName, isOrgName and isFalsePositiveName return false, and the name
\* validation of extractEntities and extractRelations gives the result of
\* its regular-expression checks alone.
C11_FallbackWhenNotReady ==
    (lastLookup.fn # "none" /\ ~lastLookup.ready) =>
        /\ lastLookup.fn = "normalize" => lastLookup.out = lastLookup.input
        /\ lastLookup.fn \in {"isProperName", "isGeoName", "isOrgName",
                              "isFalsePositiveName"}
               => lastLookup.out = FALSE
        /\ lastLookup.fn = "validateAndNormalizePerson"
               => lastLookup.out = RegexOnlyPerson(lastLookup.input)

\* C11 witness: while the initialization is in flight, a name whose Cyrillic
\* word the loaded dictionary would reject as a verb is validated and kept
\* as the regular expressions left it.
C11_Witness ==
    /\ initPromise = "pending"
    /\ Az = "loaded"
    /\ lastLookup.fn = "validateAndNormalizePerson"
    /\ ~lastLookup.ready
    /\ lastLookup.input = <<" ", "cyrD", "cyrm", "cyra", " ", " ", "A", "l">>
    /\ \E w \in DOMAIN lastLookup.dict :
           /\ ~lastLookup.dict[w].throws
           /\ Len(lastLookup.dict[w].parses) > 0
           /\ lastLookup.dict[w].parses[1].POS = "VERB"
    /\ lastLookup.out = {<<"cyrD", "cyrm", "cyra", " ", "A", "l">>}

\* C12: isMorphReady starts false; it turns true only in the step in which
\* a started initialization completes without an error, and once true it
\* stays true through every later ensureMorphInit call and lookup (so the
\* change happens at most once).
C12_ReadyOnce ==
    /\ ~isMorphReady
    /\ [][ /\ isMorphReady => isMorphReady'
           /\ (~isMorphReady /\ isMorphReady')
                  => /\ initPromise = "pending"
                     /\ initPromise' = "fulfilled"
                     /\ initStarted = 1 ]_vars

\* C12 witness: the provider is ready, a call was made after it became
\* ready, and a lookup has run since with the provider ready.
C12_Witness ==
    /\ isMorphReady
    /\ \E c \in LookupCallers : joined[c] = "after"
    /\ \E c \in LookupCallers : joined[c] = "created" /\ callState[c] = "fulfilled"
    /\ lastLookup.fn = "isProperName"
    /\ lastLookup.ready
    /\ lastLookup.out = TRUE

\* C22: with the morphology ready, a word one of whose parse variants
\* carries the grammeme Name, Surn or Patr is never reported as a
\* person-name false positive, whatever part of speech its variants carry.
C22_ProperNameTagOverrides ==
    (/\ lastLookup.fn = "isFalsePositiveName"
     /\ lastLookup.ready
     /\ isProperName(lastLookup.dict, lastLookup.input))
        => lastLookup.out = FALSE

-----------------------------------------------------------------------------
(* Claims on triggers.ts *)

\* C13: shouldCapture returns false for every text shorter than 10
\* characters or longer than 2000 characters, whatever trigger it contains
\* and whatever languages are configured.
C13_LengthBand ==
    (lastCall.fn = "shouldCapture" /\ (Length(text) < 10 \/ Length(text) > 2000))
        => lastCall.out = FALSE

\* a text of 2001 characters holding an English trigger is refused with
\* English configured
C13_Witness ==
    /\ lastCall.fn = "shouldCapture"
    /\ text = <<"long", "Remember", " ">>
    /\ Length(text) = 2001
    /\ lastCall.args = <<"en">>
    /\ TriggerMatches(text, lastCall.args)
    /\ lastCall.out = FALSE

\* C14: shouldCapture returns false for every text that contains the recall
\* delimiter <relevant-memories>, so that injected recall context is never
\* captured again.
C14_RecallDelimiterNeverCaptured ==
    (lastCall.fn = "shouldCapture" /\ Includes(text, "<relevant-memories>"))
        => lastCall.out = FALSE

\* a text inside the length band that holds the delimiter after a trigger,
\* which no other filter refuses
C14_Witness ==
    /\ lastCall.fn = "shouldCapture"
    /\ text = <<"Remember", " ", "<relevant-memories>">>
    /\ ~OutsideLengthBand(text)
    /\ ~OtherRejectFilters(text)
    /\ TriggerMatches(text, lastCall.args)
    /\ lastCall.out = FALSE

\* C15: for a text that passes the length band and the reject filters,
\* shouldCapture returns true exactly when a trigger pattern of at least one
\* configured language matches; the patterns of other languages do not count.
C15_ConfiguredLanguagesOnly ==
    (/\ lastCall.fn = "shouldCapture"
     /\ ~(Length(text) < 10 \/ Length(text) > 2000)
     /\ ~Includes(text, "<relevant-memories>")
     /\ ~OtherRejectFilters(text))
        => (lastCall.out
               <=> \E k \in 1..Len(lastCall.args) :
                       Some(TRIGGERS_BY_LANGUAGE(lastCall.args[k]), text))

\* a text with a Russian trigger only is not captured when English alone is
\* configured
C15_Witness ==
    /\ lastCall.fn = "shouldCapture"
    /\ text = <<"ru:zapomni", " ", "long">>
    /\ Some(MEMORY_TRIGGERS_RU, text)
    /\ lastCall.args = <<"en">>
    /\ lastCall.out = FALSE

\* C16: detectCategory returns the first category, in the order preference,
\* decision, entity, fact, one of whose patterns matches the lower-cased
\* text, and other when none matches.
C16_CategoryOrder ==
    lastCall.fn = "detectCategory" =>
        LET lower == LowerText(text)
            preference == Test(Pattern({"prefer"}, "b", TRUE), lower)
            decision == Test(Pattern({"decided"}, "b", TRUE), lower)
            entity == \/ Test(Pattern({"phone"}, "b", TRUE), lower)
                      \/ Test(Pattern({"email"}, "none", FALSE), lower)
            fact == Test(Pattern({"is"}, "b", TRUE), lower)
        IN  lastCall.out =
                (IF preference THEN "preference"
                 ELSE IF decision THEN "decision"
                 ELSE IF entity THEN "entity"
                 ELSE IF fact THEN "fact"
                 ELSE "other")

\* a text matching a fact pattern, an entity pattern and a decision pattern
\* is a decision
C16_Witness ==
    /\ lastCall.fn = "detectCategory"
    /\ text = <<"is", " ", "decided">>
    /\ lastCall.out = "decision"

\* fragment i of the text stands as a word of its own: no letter, Latin or
\* Cyrillic, touches it
StandsAlone(t, i) ==
    /\ i = 1 \/ FragmentOf(t[i - 1]).last \notin {"word", "cyr"}
    /\ i = Len(t) \/ FragmentOf(t[i + 1]).first \notin {"word", "cyr"}

\* the marker of test k is present in the text: one of its keywords occurs,
\* as a word of its own where the pattern asks for word boundaries
MarkerPresent(k, t) ==
    \E n \in 1..Len(ImportanceTests[k].patterns) : \E i \in 1..Len(t) :
        /\ LowerText(t)[i] \in ImportanceTests[k].patterns[n].words
        /\ ImportanceTests[k].patterns[n].anchor = "b" => StandsAlone(t, i)

\* sum of the increments of the markers present among the first k
RECURSIVE IncrementsPresent(_, _)
IncrementsPresent(k, t) ==
    IF k = 0 THEN 0
    ELSE IncrementsPresent(k - 1, t)
         + (IF MarkerPresent(k, t) THEN ImportanceTests[k].add ELSE 0)

\* C17: calculateImportance returns min(1.0, 0.5 + the increments of the
\* markers present in the text + the entity bonus min(0.05 * entityCount,
\* 0.15)), in hundredths; a sum over the set of markers present depends on
\* no order of evaluation, grows with every marker and lies in [0.5, 1.0].
C17_ImportanceIsSumOfMarkersPresent ==
    lastCall.fn = "calculateImportance" =>
        LET bonus == IF lastCall.args = {} THEN 0
                     ELSE Min(5 * (CHOOSE n \in lastCall.args : TRUE), 15)
        IN  /\ lastCall.out
                 = Min(100, 50 + IncrementsPresent(Len(ImportanceTests), text) + bonus)
            /\ lastCall.out >= 50
            /\ lastCall.out <= 100

-----------------------------------------------------------------------------
(* Claims on entity-extractor.ts: extractEntities, extractRelations *)

\* the property bag a candidate of a type is built with
CandidateProperties(type) ==
    IF type = "concept" THEN {<<"category", <<"technology">>>>} ELSE {}

\* the matched names in extraction order: persons, organizations, locations,
\* concepts
ExtractionOrder(in) ==
    SelectSeq(in.names, LAMBDA m : m.type = "person")
    \o SelectSeq(in.names, LAMBDA m : m.type = "organization")
    \o SelectSeq(in.names, LAMBDA m : m.type = "location")
    \o SelectSeq(in.names, LAMBDA m : m.type = "concept")

SameEntityKey(a, b) ==
    a.type = b.type /\ ToLowerCase(a.name) = ToLowerCase(b.name)

\* C18: the list extractEntities returns never holds two entities of one
\* type and one lower-cased name, and of several candidates with one key it
\* keeps the first in extraction order, under the name that one spells.
C18_EntitiesUniqueFirstKept ==
    extractOutput.fn = "extractEntities" =>
        LET out == extractOutput.out
            raw == ExtractionOrder(extractInput)
        IN  /\ \A i, j \in 1..Len(out) : SameEntityKey(out[i], out[j]) => i = j
            /\ \A k \in 1..Len(raw) :
                  \E i \in 1..Len(out) :
                      /\ SameEntityKey(out[i], raw[k])
                      /\ \E f \in 1..k :
                            /\ SameEntityKey(raw[f], raw[k])
                            /\ \A e \in 1..(f - 1) : ~SameEntityKey(raw[e], raw[k])
                            /\ out[i].name = raw[f].name

\* "AL" is matched before "Al": one person is returned, spelled "AL"
C18_Witness ==
    /\ extractOutput.fn = "extractEntities"
    /\ extractInput.names = << [type |-> "person", name |-> <<"A", "L">>],
                               [type |-> "concept", name |-> <<"A", "l">>],
                               [type |-> "person", name |-> <<"A", "l">>] >>
    /\ Len(extractOutput.out) = 2
    /\ extractOutput.out[1].name = <<"A", "L">>
    /\ extractOutput.out[2].type = "concept"

SameRelationKey(a, b) ==
    /\ ToLowerCase(a.sourceName) = ToLowerCase(b.sourceName)
    /\ a.relationType = b.relationType
    /\ ToLowerCase(a.targetName) = ToLowerCase(b.targetName)

\* C20: the list extractRelations returns never holds two relations of one
\* lower-cased source name, relation type and lower-cased target name; every
\* relation returned is the first one pushed with its key, with the
\* properties and confidence it was pushed with.
C20_RelationsUniqueFirstKept ==
    extractOutput.fn = "extractRelations" =>
        LET out == extractOutput.out
            raw == PushedRelations(extractInput)
        IN  /\ \A i, j \in 1..Len(out) : SameRelationKey(out[i], out[j]) => i = j
            /\ \A k \in 1..Len(raw) :
                  \E i \in 1..Len(out) : \E f \in 1..k :
                      /\ SameRelationKey(raw[f], raw[k])
                      /\ \A e \in 1..(f - 1) : ~SameRelationKey(raw[e], raw[k])
                      /\ out[i] = raw[f]

\* "Bo" is the boss of "Al" and, matched later by the acquaintance patterns
\* yet pushed first, "al" knows "Bo": the acquaintance relation alone is
\* returned for the pair, with strength 0.5 and confidence 0.7
C20_Witness ==
    /\ extractOutput.fn = "extractRelations"
    /\ extractInput.relations =
           << [group |-> "relationship", first |-> <<"A", "l">>,
               second |-> <<"B", "o">>, word |-> <<"b", "o", "s", "s">>],
              [group |-> "knows", first |-> <<"a", "l">>,
               second |-> <<"B", "o">>, word |-> <<>>] >>
    /\ extractOutput.out =
           << Relation("person", <<"a", "l">>, "person", <<"B", "o">>, "knows",
                       { <<"relationship", <<"acquaintance">>>>,
                         <<"strength", <<"0.5">>>> }, 70) >>

\* C21: every person name that is the source or the target of a relation
\* extractRelations returns is the result of validateAndNormalizePerson on
\* a matched span; a span the validation rejects yields no relation.
C21_RelationPersonsValidated ==
    extractOutput.fn = "extractRelations" =>
        \A i \in 1..Len(extractOutput.out) :
            LET r == extractOutput.out[i]
                spans == { extractInput.relations[k].first :
                               k \in 1..Len(extractInput.relations) }
                         \cup { extractInput.relations[k].second :
                                    k \in 1..Len(extractInput.relations) }
                validated(name) ==
                    \E s \in spans : validateAndNormalizePerson(<<>>, s) = {name}
            IN  /\ validated(r.sourceName)
                /\ r.targetType = "person" => validated(r.targetName)

-----------------------------------------------------------------------------
(* Claims about the memory_store and memory_forget tools and the agent_end *)
(* hook (SpecPlugin)                                                       *)

\* the requests of one kind a handler run made, in order
RequestsOf(op) == SelectSeq(pluginEffects, LAMBDA r : r.op = op)

\* C23: every payload that memory_store or the agent_end hook writes to the
\* vector store has an importance within [0, 1] (0..100 hundredths).
C23_ImportanceWithinUnitInterval ==
    \A i \in 1..Len(RequestsOf("upsert")) :
        /\ RequestsOf("upsert")[i].args.importance >= 0
        /\ RequestsOf("upsert")[i].args.importance <= 100

\* the message texts of the event that pass shouldCapture, in order
CapturableOfEvent ==
    IF pluginCall.messages = {} THEN <<>>
    ELSE LET list == CHOOSE m \in pluginCall.messages : TRUE
             user == SelectSeq(list, LAMBDA m : m.role \in {"user", "assistant"})
         IN  SelectSeq([i \in 1..Len(user) |-> user[i].content],
                       LAMBDA id : shouldCapture(TextOf(id).fragments,
                                                 ConfiguredLanguages))

\* C24: one agent_end event stores at most 3 memories however many texts
\* pass shouldCapture, none when the run was unsuccessful or carried no
\* messages, and none for a text whose duplicate check found a memory: the
\* stored memories are no more than the first three capturable texts whose
\* check found nothing.
C24_AtMostThreeStoredPerEvent ==
    pluginCall.fn = "agent_end" =>
        LET stored == RequestsOf("upsert")
            checked == 1..Min(3, Len(CapturableOfEvent))
        IN  /\ Len(stored) <= 3
            /\ Len(stored) <= Cardinality(checked \ pluginCall.existing)
            /\ \A i \in 1..Len(stored) :
                   \E k \in checked \ pluginCall.existing :
                       CapturableOfEvent[k] = stored[i].about
            /\ (~pluginCall.success \/ pluginCall.messages \in { {}, {<<>>} })
                   => Len(stored) = 0

\* four texts pass shouldCapture, no duplicate is found, and three are stored
C24_Witness ==
    /\ pluginCall.fn = "agent_end"
    /\ pluginCall.success
    /\ Len(CapturableOfEvent) = 4
    /\ pluginCall.existing = {}
    /\ Len(RequestsOf("upsert")) = 3

\* C25: createRelation is called for an extracted relation only if both its
\* source identifier and its target identifier are among the identifiers
\* ensureEntities returned for the text.
C25_RelationOnlyBetweenEnsured ==
    \A i \in 1..Len(RequestsOf("createRelation")) :
        LET r == RequestsOf("createRelation")[i].args
        IN  /\ \E k \in 1..Len(r.entityIds) : r.entityIds[k] = r.sourceId
            /\ \E k \in 1..Len(r.entityIds) : r.entityIds[k] = r.targetId

\* C26: memory_forget with a query and no memoryId issues a delete, or an
\* unlink, only when the search returned exactly one candidate and its score
\* exceeds 0.9.
C26_ForgetByQueryOnlySingleHighConfidence ==
    (/\ pluginCall.fn = "memory_forget"
     /\ pluginCall.query # {}
     /\ pluginCall.memoryId = {})
        => ((Len(RequestsOf("delete")) > 0 \/ Len(RequestsOf("unlinkMemory")) > 0)
                => /\ Len(pluginCall.results) = 1
                   /\ pluginCall.results[1].score > 90)

\* a query whose only candidate scores 0.91 deletes it and unlinks it
C26_Witness ==
    /\ pluginCall.fn = "memory_forget"
    /\ pluginCall.query # {}
    /\ pluginCall.memoryId = {}
    /\ Len(pluginCall.results) = 1
    /\ pluginCall.results[1].score = 91
    /\ Len(RequestsOf("delete")) = 1
    /\ Len(RequestsOf("unlinkMemory")) = 1

\* C29: every entity type passed to ensureEntities has a vertex tag, and
\* every relation type passed to createRelation an edge type, that
\* ensureSchema creates.
C29_TypesHaveSchema ==
    /\ \A i \in 1..Len(RequestsOf("ensureEntities")) :
           \A k \in 1..Len(RequestsOf("ensureEntities")[i].args.types) :
               TagName(RequestsOf("ensureEntities")[i].args.types[k]) \in SchemaTags
    /\ \A i \in 1..Len(RequestsOf("createRelation")) :
           RequestsOf("createRelation")[i].args.type \in SchemaEdges

-----------------------------------------------------------------------------
(* Claims about the two clients (SpecQdrant, SpecNebula)                   *)

\* C27: no operation is issued against the Qdrant collection before the
\* initialization (existence check, collection creation, payload indexes)
\* has completed, also when several operations start concurrently.
C27_IssuedAfterInitialization ==
    \A c \in Operations : qdrantIssued[c] \in {"none", "done"}

\* C28: whenever execute hands a query to the session, the client holds a
\* non-null session, also after close() and after a failed initialization.
C28_SendHoldsSession ==
    \A c \in Operations : nebulaSent[c] # "null"

====
